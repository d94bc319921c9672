------------------------------ MODULE BuildCache ------------------------------
(* The cache of generated C files (Build/Cache.py) and the builds that share *)
(* its directory (run_cached_pipeline and its callers): fingerprints, loads, *)
(* stores through a temporary file and a rename, and eviction.  Builders are *)
(* processes with source trees of their own, and each build of a builder is  *)
(* a process of its own: file_hash and the dependency tree are memoised for  *)
(* the life of a process (Cache.py:34, Dependencies.py), so that one would   *)
(* not see its sources change.  Every call to the file system                *)
(* is a step, files are inodes with names, and a process may be killed       *)
(* between any two steps.  An archive that is not complete fails its         *)
(* checksum when it is read.                                                 *)
EXTENDS Integers, Sequences, FiniteSets, SequencesExt

CONSTANTS Builders,
          SourceTexts,  \* what the source file may contain
          Broken,       \* the texts that do not compile
          Directives,   \* the settings of compiler_directives in use
          Forces,       \* the values of "force" in use
          Inodes,
          NoFile,
          Blocks,       \* writes an archive takes
          CacheSize,    \* files: what cleanup_cache compares with, and
          CacheKeep     \* what it evicts down to

ASSUME CacheSizeAssumption ==
    /\ Blocks \in Nat \ {0} /\ CacheSize \in Nat /\ CacheKeep \in 0 .. CacheSize
    /\ Broken \subseteq SourceTexts /\ Forces \subseteq BOOLEAN
    /\ NoFile \notin Inodes

VARIABLES directory, \* the cache directory: names to inodes
          contents,  \* blocks of each inode: what they were generated from
          atimes,    \* the names in the order they were last used
          c_file,    \* the output file in each builder's tree
          builder,   \* what each builder is doing, for which request
          result,    \* how its last build ended
          killed,    \* a builder was killed
          disturbed  \* another builder ran during this one's last build

cacheVars == <<directory, contents, atimes>>
buildVars == <<cacheVars, c_file, builder, result, killed, disturbed>>

Requests == [source : SourceTexts, directives : Directives, force : Forces]

\* transitive_fingerprint: the text of the sources and the options that
\* get_fingerprint keeps.  compiler_directives are not among them; a forced
\* build computes it later (compile_single), with other metadata.
Mut_Fingerprint(request) == <<NoFile, request.force>>
Fingerprint(request) == <<request.source, request.force>>

\* What an output file or a block of an archive holds: the C file generated
\* for a request, an archive of no files, or what is left of a file.
File(what) == [is |-> what, source |-> NoFile, directives |-> NoFile]
Generated(request) ==
    [is |-> "c file", source |-> request.source, directives |-> request.directives]
Compiles(request) == request.source \notin Broken
Archived(request) == IF Compiles(request) THEN Generated(request) ELSE File("empty")

\* One generated file is stored compressed; several, or none, as a zip.
CacheNames == [print : {Fingerprint(r) : r \in Requests}, ext : {"gz", "zip"}, tmp : BOOLEAN]
EntryName(request) ==
    [print |-> Fingerprint(request), tmp |-> FALSE,
     ext |-> IF Compiles(request) THEN "gz" ELSE "zip"]
TmpOf(n) == [n EXCEPT !.tmp = TRUE]

Idle == [at |-> "idle", request |-> NoFile, cached |-> NoFile, handle |-> NoFile,
         written |-> 0, files |-> <<>>, total |-> 0]

Exists(n) == directory[n] # NoFile
Listing == {n \in CacheNames : Exists(n)}
InUse == {directory[n] : n \in Listing} \cup {builder[b].handle : b \in Builders}
Blank == [i \in 1 .. Blocks |-> File("none")]
Complete(inode) ==
    /\ contents[inode][1].is # "none"
    /\ \A i \in 1 .. Blocks : contents[inode][i] = contents[inode][1]

\* The elements of a sequence that are in S, in their order.
Only(s, S) ==
    LET only[i \in 0 .. Len(s)] == IF i = 0 THEN <<>>
                                  ELSE IF s[i] \in S THEN Append(only[i - 1], s[i])
                                  ELSE only[i - 1]
    IN  only[Len(s)]
Used(n) == Append(Only(atimes, CacheNames \ {n}), n)

------------------------------------------------------------------------------
BuildInit ==
    /\ directory = [n \in CacheNames |-> NoFile]
    /\ contents = [i \in Inodes |-> Blank]
    /\ atimes = <<>>
    /\ c_file = [b \in Builders |-> File("none")]
    /\ builder = [b \in Builders |-> Idle]
    /\ result = [b \in Builders |-> "none"]
    /\ killed = FALSE
    /\ disturbed = [b \in Builders |-> FALSE]

Steps(b, place) == builder' = [builder EXCEPT ![b].at = place]

CleansUp(b) ==
    builder' = [builder EXCEPT ![b] =
                   [Idle EXCEPT !.at = "listdir", !.request = builder[b].request]]

\* A build ends; its handles are closed.
Ends(b, outcome) ==
    /\ builder' = [builder EXCEPT ![b] =
          [Idle EXCEPT !.request = IF outcome = "none" THEN NoFile ELSE builder[b].request]]
    /\ result' = [result EXCEPT ![b] = outcome]

\* A file with neither a name nor an open handle is gone.
Reclaim == contents' = [i \in Inodes |-> IF i \in InUse' THEN contents[i] ELSE Blank]

\* cythonize finds the C file out of date, or is forced, and computes the
\* fingerprint of what it is about to compile.  Sources are edited between
\* builds only, so the request is what the compiler will read.
StartBuild(b) ==
    /\ builder[b].at = "idle"
    /\ \E request \in Requests :
          builder' = [builder EXCEPT ![b] = [Idle EXCEPT !.at = "lookup", !.request = request]]
    /\ result' = [result EXCEPT ![b] = "none"]
    /\ LET others == {v \in Builders \ {b} : builder[v].at # "idle"}
       IN  disturbed' = [v \in Builders |->
              IF v = b THEN others # {} ELSE disturbed[v] \/ v \in others]
    /\ UNCHANGED <<cacheVars, c_file, killed>>

LookupCache(b) ==
    /\ builder[b].at = "lookup"
    /\ LET print == Fingerprint(builder[b].request)
           gz == [print |-> print, ext |-> "gz", tmp |-> FALSE]
           zip == [print |-> print, ext |-> "zip", tmp |-> FALSE]
       IN  builder' = [builder EXCEPT
              ![b].at = IF Exists(gz) \/ Exists(zip) THEN "touch" ELSE "compile",
              ![b].cached = IF Exists(gz) THEN gz ELSE IF Exists(zip) THEN zip ELSE NoFile]
    /\ UNCHANGED <<cacheVars, c_file, result, killed, disturbed>>

\* os.utime and open raise when the entry was evicted meanwhile.
TouchEntry(b) ==
    /\ builder[b].at = "touch"
    /\ IF Exists(builder[b].cached)
       THEN /\ atimes' = Used(builder[b].cached)
            /\ Steps(b, "open") /\ UNCHANGED result
       ELSE Ends(b, "failed") /\ UNCHANGED atimes
    /\ UNCHANGED <<directory, contents, c_file, killed, disturbed>>

OpenEntry(b) ==
    /\ builder[b].at = "open"
    /\ IF Exists(builder[b].cached)
       THEN /\ builder' = [builder EXCEPT ![b].at = "read",
                                          ![b].handle = directory[builder[b].cached]]
            /\ c_file' = IF builder[b].cached.ext = "gz"
                         THEN [c_file EXCEPT ![b] = File("partial")] ELSE c_file
            /\ UNCHANGED result
       ELSE Ends(b, "failed") /\ UNCHANGED c_file
    /\ UNCHANGED <<cacheVars, killed, disturbed>>

\* The files in the archive are copied out; an empty zip has none.
ReadEntry(b) ==
    /\ builder[b].at = "read"
    /\ LET blocks == contents[builder[b].handle]
       IN  IF Complete(builder[b].handle)
           THEN /\ c_file' = IF blocks[1].is = "empty" THEN c_file
                             ELSE [c_file EXCEPT ![b] = blocks[1]]
                /\ \/ Ends(b, "ok")
                   \/ CleansUp(b) /\ UNCHANGED result
           ELSE Ends(b, "failed") /\ UNCHANGED c_file
    /\ UNCHANGED <<directory, atimes, killed, disturbed>>
    /\ Reclaim

\* The compiler writes the C file, or leaves a marker in an existing one.
Compile(b) ==
    /\ builder[b].at = "compile"
    /\ c_file' = [c_file EXCEPT ![b] =
          IF Compiles(builder[b].request) THEN Generated(builder[b].request)
          ELSE IF @.is = "none" THEN @ ELSE File("#error")]
    /\ builder' = [builder EXCEPT ![b].at = "store",
                                  ![b].cached = EntryName(builder[b].request)]
    /\ UNCHANGED <<cacheVars, result, killed, disturbed>>

\* store_to_cache: the temporary file is opened for writing, which empties it
\* if it is there, even while another builder writes it.
OpenTmp(b) ==
    /\ builder[b].at = "store"
    /\ LET tmp == TmpOf(builder[b].cached)
       IN  \E inode \in IF Exists(tmp) THEN {directory[tmp]} ELSE Inodes \ InUse :
              /\ directory' = [directory EXCEPT ![tmp] = inode]
              /\ contents' = [contents EXCEPT ![inode] = Blank]
              /\ atimes' = Used(tmp)
              /\ builder' = [builder EXCEPT ![b].at = "write", ![b].handle = inode]
    /\ UNCHANGED <<c_file, result, killed, disturbed>>

\* Mutant: the file is not closed, and so not flushed, before the rename.
Mut_WriteBlock(b) ==
    /\ builder[b].at = "write"
    /\ contents' = [contents EXCEPT ![builder[b].handle][builder[b].written + 1] =
          Archived(builder[b].request)]
    /\ builder' = [builder EXCEPT
          ![b].at = IF builder[b].written + 2 >= Blocks THEN "rename" ELSE "write",
          ![b].written = @ + 1,
          ![b].handle = IF builder[b].written + 2 >= Blocks THEN NoFile ELSE @]
    /\ UNCHANGED <<directory, atimes, c_file, result, killed, disturbed>>

WriteBlock(b) ==
    /\ builder[b].at = "write"
    /\ contents' = [contents EXCEPT ![builder[b].handle][builder[b].written + 1] =
          Archived(builder[b].request)]
    /\ builder' = [builder EXCEPT
          ![b].at = IF builder[b].written + 1 = Blocks THEN "rename" ELSE "write",
          ![b].written = @ + 1,
          ![b].handle = IF builder[b].written + 1 = Blocks THEN NoFile ELSE @]
    /\ UNCHANGED <<directory, atimes, c_file, result, killed, disturbed>>

\* Mutant: the temporary file is copied, not renamed.
Mut_RenameTmp(b) ==
    /\ builder[b].at = "rename"
    /\ LET entry == builder[b].cached
           tmp == TmpOf(entry)
       IN  IF Exists(tmp)
           THEN /\ directory' = [directory EXCEPT ![entry] = directory[tmp]]
                /\ atimes' = Append(Only(atimes, CacheNames \ {tmp, entry}), entry)
                /\ \/ Ends(b, IF Compiles(builder[b].request) THEN "ok" ELSE "failed")
                   \/ /\ Compiles(builder[b].request)
                      /\ CleansUp(b) /\ UNCHANGED result
           ELSE Ends(b, "failed") /\ UNCHANGED <<directory, atimes>>
    /\ UNCHANGED <<c_file, killed, disturbed>>
    /\ Reclaim

\* os.rename raises when the temporary file is gone: renamed by another
\* builder, or evicted.  A failed compilation is reported only now.
RenameTmp(b) ==
    /\ builder[b].at = "rename"
    /\ LET entry == builder[b].cached
           tmp == TmpOf(entry)
       IN  IF Exists(tmp)
           THEN /\ directory' = [directory EXCEPT ![entry] = directory[tmp], ![tmp] = NoFile]
                /\ atimes' = Append(Only(atimes, CacheNames \ {tmp, entry}), entry)
                /\ \/ Ends(b, IF Compiles(builder[b].request) THEN "ok" ELSE "failed")
                   \/ /\ Compiles(builder[b].request)
                      /\ CleansUp(b) /\ UNCHANGED result
           ELSE Ends(b, "failed") /\ UNCHANGED <<directory, atimes>>
    /\ UNCHANGED <<c_file, killed, disturbed>>
    /\ Reclaim

\* cleanup_cache, at the end of cythonize and of compile with several files:
\* nothing to do below the limit; otherwise every file is listed, ...
ListCache(b) ==
    /\ builder[b].at = "listdir"
    /\ IF Cardinality(Listing) < CacheSize
       THEN Ends(b, "ok")
       ELSE /\ builder' = [builder EXCEPT ![b].at = "stat", ![b].files = Only(atimes, Listing)]
            /\ UNCHANGED result
    /\ UNCHANGED <<cacheVars, c_file, killed, disturbed>>

\* ... its size and time are read, ...
StatCache(b) ==
    /\ builder[b].at = "stat"
    /\ LET files == builder[b].files
       IN  IF \E i \in DOMAIN files : ~Exists(files[i])
           THEN Ends(b, "failed")
           ELSE IF Len(files) > CacheSize
           THEN /\ builder' = [builder EXCEPT ![b].at = "evict", ![b].total = Len(files),
                     ![b].files = Reverse(Only(atimes, ToSet(files)))]
                /\ UNCHANGED result
           ELSE Ends(b, "ok")
    /\ UNCHANGED <<cacheVars, c_file, killed, disturbed>>

\* Mutant: the files are not taken off the list one by one.
Mut_EvictFile(b) ==
    /\ builder[b].at = "evict"
    /\ LET file == Head(builder[b].files)
       IN  IF Exists(file)
           THEN /\ directory' = [directory EXCEPT ![file] = NoFile]
                /\ atimes' = Only(atimes, CacheNames \ {file})
                /\ IF builder[b].total - 1 < CacheKeep
                   THEN Ends(b, "ok")
                   ELSE builder' = [builder EXCEPT ![b].total = @ - 1] /\ UNCHANGED result
           ELSE Ends(b, "failed") /\ UNCHANGED <<directory, atimes>>
    /\ UNCHANGED <<c_file, killed, disturbed>>
    /\ Reclaim

\* ... and files are unlinked, the last used first, until enough is free.
EvictFile(b) ==
    /\ builder[b].at = "evict"
    /\ LET file == Head(builder[b].files)
       IN  IF Exists(file)
           THEN /\ directory' = [directory EXCEPT ![file] = NoFile]
                /\ atimes' = Only(atimes, CacheNames \ {file})
                /\ IF builder[b].total - 1 < CacheKeep \/ Len(builder[b].files) = 1
                   THEN Ends(b, "ok")
                   ELSE /\ builder' = [builder EXCEPT ![b].total = @ - 1, ![b].files = Tail(@)]
                        /\ UNCHANGED result
           ELSE Ends(b, "failed") /\ UNCHANGED <<directory, atimes>>
    /\ UNCHANGED <<c_file, killed, disturbed>>
    /\ Reclaim

\* The process is killed; what it wrote stays.  Bound: one in a run.
KillBuilder(b) ==
    /\ builder[b].at # "idle" /\ ~killed
    /\ Ends(b, "none")
    /\ killed' = TRUE
    /\ UNCHANGED <<directory, atimes, c_file, disturbed>>
    /\ Reclaim

BuildNext ==
    \E b \in Builders :
        \/ StartBuild(b) \/ LookupCache(b) \/ TouchEntry(b)
        \/ OpenEntry(b) \/ ReadEntry(b) \/ Compile(b) \/ OpenTmp(b)
        \/ WriteBlock(b) \/ RenameTmp(b) \/ ListCache(b) \/ StatCache(b)
        \/ EvictFile(b) \/ KillBuilder(b)

BuildSpec == BuildInit /\ [][BuildNext]_buildVars

------------------------------------------------------------------------------
BuilderType ==
    [at : {"idle", "lookup", "touch", "open", "read", "compile", "store", "write",
           "rename", "listdir", "stat", "evict"},
     request : Requests \cup {NoFile}, cached : CacheNames \cup {NoFile},
     handle : Inodes \cup {NoFile}, written : 0 .. Blocks,
     files : Seq(CacheNames), total : Nat]

\* The variables keep their types; the listed files are there to be evicted, and
\* the total is theirs.
BuildTypeOK ==
    /\ directory \in [CacheNames -> Inodes \cup {NoFile}]
    /\ \A b \in Builders : builder[b] \in BuilderType
    /\ \A b \in Builders :
          builder[b].at = "evict" => builder[b].files # <<>> /\ builder[b].total = Len(builder[b].files)
    /\ Listing = ToSet(atimes) /\ Len(atimes) = Cardinality(Listing)

\* A build of a correct source that reports success leaves the C file that the
\* compiler generates for it, whatever other builders store, evict or leave
\* half written meanwhile: "If the fingerprint is found, the cythonization can
\* be skipped" (Cache.py).
BuildIsRight ==
    \A b \in Builders :
        result[b] = "ok" /\ Compiles(builder[b].request)
            => c_file[b] = Generated(builder[b].request)

\* An entry holds only what its fingerprint stands for; and one that is not
\* complete is still being written, unless a builder was killed: the rename
\* publishes whole files, and a temporary file that two builders share is
\* filled again by the second.
EntriesAreWhole ==
    \A n \in Listing : ~n.tmp =>
        LET blocks == contents[directory[n]]
        IN  /\ \A i \in 1 .. Blocks : blocks[i].is = "c file" => blocks[i].source = n.print[1]
            /\ Complete(directory[n]) \/ killed
                 \/ \E b \in Builders : builder[b].at = "write" /\ builder[b].handle = directory[n]

\* A build that had the cache to itself fails only because its source does not
\* compile: lookup_cache, store_to_cache and cleanup_cache never trip over
\* their own files.
AloneItSucceeds ==
    \A b \in Builders :
        result[b] = "failed" => disturbed[b] \/ killed \/ ~Compiles(builder[b].request)

\* cythonize(force=True) compiles: a forced build loads nothing from the cache.
ForceCompiles ==
    \A b \in Builders : builder[b].at = "read" => ~builder[b].request.force

\* A source that does not compile is never reported as built, as
\* run_cached_pipeline does when it loads the empty archive it stored for it.
BrokenIsReported ==
    \A b \in Builders : result[b] = "ok" => Compiles(builder[b].request)
==============================================================================
