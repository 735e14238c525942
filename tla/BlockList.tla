----------------------------- MODULE BlockList ------------------------------
(***************************************************************************)
(* The block list (cache/block_cache.go), the updater that fills it once   *)
(* after the start (main.go, updater.go), the API that changes it (api.go) *)
(* and the directory of block list files, which outlives the process.      *)
(* Every call of Exists, Set and Remove is a step of its own, because each *)
(* takes and releases the lock.  A file is the sequence of the names on    *)
(* its lines; a download writes its file while it runs and may break off.  *)
(***************************************************************************)
EXTENDS Integers, SequencesExt, FiniteSetsExt

CONSTANTS Spellings,   \* domain names as people spell them, fully qualified
          ToLower,     \* strings.ToLower, a function on Spellings
          Junk,        \* what a cut line or an error page yields as a name
          Host,        \* Config.BlockLists: the host of each URI, a sequence
          Body,        \* the lines of each list, a sequence alike
          Hosts,       \* the lines of the administrator's file
          Directory,   \* all file names, in the order filepath.Walk has them
          Bad,         \* the files that may fail to open or to be read to the end
          Blocklist,   \* Config.Blocklist, a sequence
          Whitelist,   \* Config.Whitelist
          Managed,     \* the names API calls are about
          Budgets      \* bounds [lists, crash, api, ask, tick, requests], one is chosen

Names == Range(ToLower)    \* the keys of BlockCache.m
Uris == DOMAIN Host
Own == <<"hosts", 1>>      \* the administrator's file; the others are .tmp files
Absent == <<"absent">>     \* the content of a file that does not exist

\* Variant of FileName that does not count the URIs of one host.
FileNamePerHost(u) == <<Host[u], 1>>

\* host.N.tmp, where N is what timesSeen counts.
FileName(u) == <<Host[u], Cardinality({v \in 1..u : Host[v] = Host[u]})>>

ASSUME BlockListAssumption ==
    /\ ToLower \in [Spellings -> Spellings]
    /\ \A n \in Names : ToLower[n] = n
    /\ Junk \in Names /\ Managed \subseteq Names /\ Whitelist \subseteq Spellings
    /\ Blocklist \in Seq(Spellings) /\ Hosts \in Seq(Spellings)
    /\ DOMAIN Body = Uris /\ \A u \in Uris : Body[u] \in Seq(Spellings) \ {<<>>}
    /\ Absent[1] \notin Spellings
    /\ {Own} \cup {FileName(u) : u \in Uris} \cup Bad \subseteq Range(Directory)
    /\ \A u \in Uris : FileName(u) # Own
    /\ \A b \in Budgets : b.lists \in 0..Len(Host)

VARIABLES proc,     \* the process: "down" or "up"
          dir,      \* Config.BlockListDir exists
          files,    \* per file name its content, or Absent
          list,     \* BlockList.m
          upd,      \* the next step of fetchBlocklists
          dl,       \* per URI: the next step of downloadBlocklist
          todo,     \* the files Walk has yet to visit
          lines,    \* the lines, or manual entries, yet to be processed
          told,     \* history: the names the API was last told to "set" or "remove"
          broken,   \* history: the URIs whose download is not the whole list
          budget    \* the bounds: how many URIs are configured, what is left of
                    \* crashes, API calls, requests and ticks of the clock, and
                    \* which requests there may be

listVars == <<proc, dir, files, list, upd, dl, todo, lines, told, broken, budget>>
disk == <<dir, files>>
walk == <<upd, dl, todo, lines>>

Configured == 1..budget.lists

Spend(what) == budget[what] > 0 /\ budget' = [budget EXCEPT ![what] = @ - 1]

ListInit ==
    /\ proc = "down"
    /\ dir \in BOOLEAN
    /\ files = [f \in Range(Directory) |-> IF dir /\ f = Own THEN Hosts ELSE Absent]
    /\ list = {} /\ upd = "off" /\ dl = [u \in Uris |-> "off"]
    /\ todo = <<>> /\ lines = <<>>
    /\ told = [n \in Names |-> "nothing"] /\ broken = {}
    /\ budget \in Budgets

-----------------------------------------------------------------------------
(* The process.                                                            *)

\* main: the listeners and the API run, and fetchBlocklists has been started.
Start ==
    /\ proc = "down"
    /\ proc' = "up" /\ upd' = "timer"
    /\ UNCHANGED <<disk, list, dl, todo, lines, told, broken, budget>>

\* The process dies at any moment; files stay as they are.
Crash ==
    /\ proc = "up" /\ Spend("crash")
    /\ proc' = "down" /\ list' = {} /\ upd' = "off"
    /\ dl' = [u \in Uris |-> "off"] /\ todo' = <<>> /\ lines' = <<>>
    /\ told' = [n \in Names |-> "nothing"] /\ broken' = {}
    /\ UNCHANGED disk

\* setBlock and removeBlock: BlockCache.Set and BlockCache.Remove.
APISet(n) ==
    /\ proc = "up" /\ Spend("api")
    /\ list' = list \cup {n} /\ told' = [told EXCEPT ![n] = "set"]
    /\ UNCHANGED <<proc, disk, walk, broken>>

APIRemove(n) ==
    /\ proc = "up" /\ Spend("api")
    /\ list' = list \ {n} /\ told' = [told EXCEPT ![n] = "remove"]
    /\ UNCHANGED <<proc, disk, walk, broken>>

-----------------------------------------------------------------------------
(* updateBlocklists and fetchBlocklist.                                    *)

\* The timer has fired: make the directory, or fail to; then readBlocklists
\* finds no directory and returns.
Update ==
    /\ upd = "timer"
    /\ \/ /\ dir' = TRUE /\ upd' = "manual" /\ lines' = Blocklist
       \/ /\ ~dir /\ upd' = "done" /\ UNCHANGED <<dir, lines>>
    /\ UNCHANGED <<proc, files, list, dl, todo, told, broken, budget>>

\* The loop over Config.Blocklist.
SetManual ==
    /\ upd = "manual" /\ lines # <<>>
    /\ list' = list \cup {ToLower[Head(lines)]} /\ lines' = Tail(lines)
    /\ UNCHANGED <<proc, disk, upd, dl, todo, told, broken, budget>>

\* Start one goroutine per URI.
Fetch ==
    /\ upd = "manual" /\ lines = <<>>
    /\ upd' = "wait" /\ dl' = [u \in Uris |-> IF u \in Configured THEN "create" ELSE "done"]
    /\ UNCHANGED <<proc, disk, list, todo, lines, told, broken, budget>>

\* What a transfer that has broken off leaves: some lines, and a cut one or not.
Parts(u) ==
    LET whole == {SubSeq(Body[u], 1, k) : k \in 0..Len(Body[u]) - 1}
    IN  whole \cup {Append(p, Junk) : p \in whole}

\* The transfer u goes on at pc, its file now being content.
Transfer(u, pc, content, spoiled) ==
    /\ dl' = [dl EXCEPT ![u] = pc]
    /\ files' = [files EXCEPT ![FileName(u)] = content]
    /\ broken' = IF spoiled THEN broken \cup {u} ELSE broken
    /\ UNCHANGED <<proc, dir, list, upd, todo, lines, told, budget>>

\* os.Create empties the file, or fails.
Create(u) ==
    /\ dl[u] = "create"
    /\ \/ Transfer(u, "get", <<>>, FALSE)
       \/ Transfer(u, "done", files[FileName(u)], TRUE)

\* http.Get fails, or a response arrives: the list, of which a part has been
\* copied so far, or an error page, whose status nobody looks at.
Get(u) ==
    /\ dl[u] = "get"
    /\ \/ Transfer(u, "done", <<>>, TRUE)
       \/ \E part \in Parts(u) : Transfer(u, "copy", part, FALSE)
       \/ Transfer(u, "done", <<Junk>>, TRUE)

\* io.Copy ends, or breaks off.
Copy(u) ==
    /\ dl[u] = "copy"
    /\ \/ Transfer(u, "done", Body[u], FALSE)
       \/ Transfer(u, "done", files[FileName(u)], TRUE)

-----------------------------------------------------------------------------
(* readBlocklists and parseHostFile.                                       *)

Present(f) == files[f] # Absent

\* readBlocklists begins a walk over the given files.
BeginWalk(names) ==
    /\ upd = "wait" /\ \A u \in Uris : dl[u] = "done"
    /\ upd' = "walk" /\ todo' = names
    /\ UNCHANGED <<proc, disk, list, dl, lines, told, broken, budget>>

\* Variant of Wait: the goroutine of a failed download does not call wg.Done.
WaitForWhole == broken = {} /\ BeginWalk(SelectSeq(Directory, Present))

\* Variant of Wait that expects the files of all downloads to be there.
WaitForAll == BeginWalk(Directory)

\* wg.Wait returns, and Walk reads the names in the directory.
Wait == BeginWalk(SelectSeq(Directory, Present))

\* Walk visits the next file, which may fail to open: that ends the walk.
Visit ==
    /\ upd = "walk" /\ todo # <<>>
    /\ \/ upd' = "parse" /\ lines' = files[Head(todo)]
       \/ Head(todo) \in Bad /\ upd' = "ended" /\ UNCHANGED lines
    /\ UNCHANGED <<proc, disk, list, dl, todo, told, broken, budget>>

WalkEnd ==
    /\ upd = "walk" /\ todo = <<>>
    /\ upd' = "done"
    /\ UNCHANGED <<proc, disk, list, dl, todo, lines, told, broken, budget>>

\* Variant of ParseLine that does not look at the white list.
ParseLineUnchecked ==
    /\ upd = "parse" /\ lines # <<>>
    /\ IF ToLower[Head(lines)] \notin list
       THEN upd' = "set" /\ UNCHANGED lines
       ELSE lines' = Tail(lines) /\ UNCHANGED upd
    /\ UNCHANGED <<proc, disk, list, dl, todo, told, broken, budget>>

\* A line of parseHostFile: look at the block list, and at the white list, whose
\* entries are compared as they are spelled.
ParseLine ==
    /\ upd = "parse" /\ lines # <<>>
    /\ IF ToLower[Head(lines)] \notin list /\ Head(lines) \notin Whitelist
       THEN upd' = "set" /\ UNCHANGED lines
       ELSE lines' = Tail(lines) /\ UNCHANGED upd
    /\ UNCHANGED <<proc, disk, list, dl, todo, told, broken, budget>>

\* The same line: BlockList.Set, under a lock of its own.
SetLine ==
    /\ upd = "set"
    /\ list' = list \cup {ToLower[Head(lines)]}
    /\ lines' = Tail(lines) /\ upd' = "parse"
    /\ UNCHANGED <<proc, disk, dl, todo, told, broken, budget>>

\* A temporary file is removed once it has been read.
Clean(f) == IF f = Own THEN files ELSE [files EXCEPT ![f] = Absent]

\* Variant of FileEnd that leaves temporary files where they are.
FileEndKeeping ==
    /\ upd = "parse" /\ lines = <<>>
    /\ \/ upd' = "walk" /\ todo' = Tail(todo) /\ UNCHANGED files
       \/ Head(todo) \in Bad /\ upd' = "ended" /\ UNCHANGED <<todo, files>>
    /\ UNCHANGED <<proc, dir, list, dl, lines, told, broken, budget>>

\* The end of the file, or an error in reading it, which ends the walk.
FileEnd ==
    /\ upd = "parse" /\ lines = <<>>
    /\ \/ upd' = "walk" /\ todo' = Tail(todo) /\ files' = Clean(Head(todo))
       \/ Head(todo) \in Bad /\ upd' = "ended" /\ UNCHANGED <<todo, files>>
    /\ UNCHANGED <<proc, dir, list, dl, lines, told, broken, budget>>

-----------------------------------------------------------------------------
Updater ==
    \/ Update \/ SetManual \/ Fetch \/ Wait \/ Visit \/ WalkEnd
    \/ ParseLine \/ SetLine \/ FileEnd

Download(u) == Create(u) \/ Get(u) \/ Copy(u)

\* Everything but the death of the process.
ListNext ==
    \/ Start \/ Updater
    \/ \E u \in Uris : Download(u)
    \/ \E n \in Managed : APISet(n) \/ APIRemove(n)

-----------------------------------------------------------------------------
(* Properties.                                                             *)

ListTypeOK ==
    /\ proc \in {"down", "up"} /\ dir \in BOOLEAN
    /\ files \in [Range(Directory) -> Seq(Spellings) \cup {Absent}]
    /\ list \subseteq Names
    /\ upd \in {"off", "timer", "manual", "wait", "walk", "parse", "set", "done", "ended"}
    /\ dl \in [Uris -> {"off", "create", "get", "copy", "done"}]
    /\ todo \in Seq(Range(Directory)) /\ lines \in Seq(Spellings)
    /\ told \in [Names -> {"nothing", "set", "remove"}]
    /\ broken \subseteq Uris

\* What BlockList.Set makes of a set of lines.
Listed(entries) == {ToLower[e] : e \in entries}

\* The names that an undisturbed load must put on the list: the manual entries,
\* and the names in the administrator's file and in the lists that arrived whole,
\* but for the white list.
Due ==
    Listed(Range(Blocklist) \cup
           ((UNION {Range(Body[u]) : u \in Configured \ broken}
             \cup (IF Present(Own) THEN Range(files[Own]) ELSE {})) \ Whitelist))

\* When readBlocklists has walked over all files (upd "done"; a file that cannot
\* be read ends it early), every name that was due is on the list, unless the API
\* has removed it: whatever earlier runs of the process have left in the
\* directory, whichever downloads break off, and however API calls fall between
\* Exists and Set.  And what the API has set is never lost to the updater.
LoadedListComplete ==
    /\ upd = "done" /\ dir => \A n \in Due : n \in list \/ told[n] = "remove"
    /\ \A n \in Names : told[n] = "set" => n \in list

\* A name is blocked for a reason: a manual entry, the API, or a line of a list;
\* what is on no list only by a download that broke off, perhaps in an earlier run
\* of the process.  A line that is spelled as on the white list is no reason.
BlockedForAReason ==
    \A n \in list :
        \/ told[n] = "set"
        \/ n \in Listed(Range(Blocklist) \cup
                         ((Range(Hosts) \cup {Junk} \cup
                           UNION {Range(Body[u]) : u \in Uris}) \ Whitelist))

\* readBlocklists leaves no temporary file behind when it has walked over all
\* files: also those of a run that died in the middle are read and removed.
TemporaryFilesRemoved ==
    upd = "done" => \A f \in DOMAIN files : f # Own => ~Present(f)

\* The load of the block list comes to its end or the process dies, provided that
\* no server leaves a download unfinished for ever: http.Get has no time limit, and
\* wg.Wait waits for all of them.
LoadEnds ==
    (\A u \in Uris : []<>(dl[u] \notin {"get", "copy"})) =>
        (upd = "timer" ~> upd \in {"done", "ended", "off"})
=============================================================================
