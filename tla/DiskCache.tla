------------------------------- MODULE DiskCache -------------------------------
(***************************************************************************)
(* notion/render_cache.go: DiskRenderCache.Do over one cache directory.    *)
(*                                                                         *)
(* The directory is shared by several instances: operating-system          *)
(* processes, or the caches InitRenderCache replaced in one process.  Each *)
(* instance has a flight group of its own, of which only the promise is    *)
(* used here (module Flight): in an instance one goroutine at a time leads *)
(* the load of a key, and the others wait for its answer.                  *)
(*                                                                         *)
(* Every system call is a step; ReadFile is one, because rename replaces a *)
(* file as a whole and an open file keeps its content.  Reading and        *)
(* removing fail only on files that are not there.                         *)
(***************************************************************************)
EXTENDS FiniteSetsExt

CONSTANTS
  Keys,        \* cache keys, a set of numbers: their order is the path order
  Workers,     \* goroutines that call Do
  Deployments, \* the ways to spread the goroutines over instances
  Sizes,       \* the lengths a rendered page may have
  MaxBytes,    \* the budget
  MaxClock,    \* bound: how far the file system's coarse clock runs
  MaxCrashes,  \* bound: how many times an instance may die
  NoFile       \* sentinel

ASSUME DiskCacheAssumption ==
  /\ Keys \subseteq Nat /\ IsFiniteSet(Keys)
  /\ Sizes \subseteq Nat \ {0}
  /\ MaxBytes \in Nat \ {0}
  /\ MaxClock \in Nat /\ MaxCrashes \in Nat

VARIABLES
  instance,  \* instance[w]: the cache instance w uses
  file,      \* file[k]: the .html file of k: size, modification time, and
             \* whether it holds all that was rendered
  temp,      \* the workers whose temporary file exists, under its own name
  litter,    \* some temporary file has no owner any more
  clock,     \* the file system's time
  crashes,   \* how many crashes there were
  unsettled, \* the directory may exceed the budget with nobody pruning it
  at,        \* where each worker is
  key,       \* Do's key
  page,      \* the file a worker has read or is writing
  seen,      \* the files its prune has listed and not tried to remove yet
  todo,      \* the paths its walk has still to visit
  listed,    \* the paths there were when the walk began
  used       \* prune's total of the listed files it has not removed

vars == <<instance, file, temp, litter, clock, crashes, unsettled, at, key, page, seen,
          todo, listed, used>>
locals == <<page, seen, todo, listed, used>>

Present == {k \in Keys : file[k] # NoFile}
Total(f) == SumFunction([k \in {j \in Keys : f[j] # NoFile} |-> f[k].size])

Files == [size : Sizes, time : 0..MaxClock, whole : BOOLEAN]
NoPage == [size |-> 0, time |-> 0, whole |-> FALSE]
EmptyList == [k \in Keys |-> NoFile]

\* A directory left by earlier instances, which may have had a larger budget.
Init ==
  /\ instance \in Deployments
  /\ file \in [Keys -> [size : Sizes, time : {0}, whole : {TRUE}] \cup {NoFile}]
  /\ unsettled = (Total(file) > MaxBytes)
  /\ temp = {}
  /\ litter = FALSE
  /\ clock = 0
  /\ crashes = 0
  /\ at = [w \in Workers |-> "idle"]
  /\ key = [w \in Workers |-> 0]
  /\ page = [w \in Workers |-> NoPage]
  /\ seen = [w \in Workers |-> EmptyList]
  /\ todo = [w \in Workers |-> {}]
  /\ listed = [w \in Workers |-> {}]
  /\ used = [w \in Workers |-> 0]

Goto(w, place) == at' = [at EXCEPT ![w] = place]

\* Do is called and looks the key up.
Call(w, k) ==
  /\ at[w] = "idle"
  /\ Goto(w, "get")
  /\ key' = [key EXCEPT ![w] = k]
  /\ UNCHANGED <<file, temp, litter, clock, crashes, unsettled, locals>>

\* get: ReadFile succeeds, in the first lookup or in the leader's second one.
ReadHit(w) ==
  /\ at[w] \in {"get", "getagain"}
  /\ key[w] \in Present
  /\ page' = [page EXCEPT ![w] = file[key[w]]]
  /\ Goto(w, IF at[w] = "get" THEN "touch" ELSE "touchagain")
  /\ UNCHANGED <<file, temp, litter, clock, crashes, unsettled, key, seen, todo,
                 listed, used>>

\* get: Chtimes marks whatever file has the path now, if any, as just used.
TouchFile(w) ==
  /\ at[w] \in {"touch", "touchagain"}
  /\ file' = IF key[w] \in Present
             THEN [file EXCEPT ![key[w]].time = clock] ELSE file
  /\ Goto(w, IF at[w] = "touch" THEN "return" ELSE "answer")
  /\ UNCHANGED <<temp, litter, clock, crashes, unsettled, key, locals>>

\* The worker runs the function it passed to flight.Do.
Leading(w) ==
  at[w] \in {"getagain", "touchagain", "render", "create", "write", "rename",
             "walk", "remove", "answer"}
Sharing(v, w) == v # w /\ instance[v] = instance[w] /\ key[v] = key[w]

\* The first lookup misses: the worker leads the load or shares another's.
ReadMiss(w) ==
  /\ at[w] = "get"
  /\ key[w] \notin Present
  /\ Goto(w, IF \E v \in Workers : Sharing(v, w) /\ Leading(v)
             THEN "share" ELSE "getagain")
  /\ UNCHANGED <<file, temp, litter, clock, crashes, unsettled, key, locals>>

ReadMissAgain(w) ==
  /\ at[w] = "getagain"
  /\ key[w] \notin Present
  /\ Goto(w, "render")
  /\ UNCHANGED <<file, temp, litter, clock, crashes, unsettled, key, locals>>

\* load() renders the page or fails; only what fits in the budget is stored.
Render(w) ==
  /\ at[w] = "render"
  /\ \/ \E n \in Sizes :
          /\ page' = [page EXCEPT ![w] = [size |-> n, time |-> clock, whole |-> TRUE]]
          /\ Goto(w, IF n <= MaxBytes THEN "create" ELSE "answer")
     \/ Goto(w, "answer") /\ UNCHANGED page
  /\ UNCHANGED <<file, temp, litter, clock, crashes, unsettled, key, seen, todo,
                 listed, used>>

\* Fault: the page is written to its final path, not to a temporary file.
Create_InPlace(w) ==
  /\ at[w] = "create"
  /\ file' = [file EXCEPT ![key[w]] = [page[w] EXCEPT !.whole = FALSE]]
  /\ Goto(w, "write")
  /\ UNCHANGED <<temp, litter, clock, crashes, unsettled, key, locals>>

\* put: MkdirAll and CreateTemp; if one fails the page is returned unstored.
Create(w) ==
  /\ at[w] = "create"
  /\ \/ temp' = temp \cup {w} /\ Goto(w, "write")
     \/ Goto(w, "answer") /\ UNCHANGED temp
  /\ UNCHANGED <<file, litter, clock, crashes, unsettled, key, locals>>

\* Fault: a failed write leaves its temporary file behind.
Write_KeepTemp(w) ==
  /\ at[w] = "write"
  /\ page' = [page EXCEPT ![w].time = clock]
  /\ Goto(w, "rename") \/ Goto(w, "answer")
  /\ UNCHANGED <<temp, file, litter, clock, crashes, unsettled, key, seen, todo,
                 listed, used>>

\* put: WriteString and Close; if one fails the temporary file is removed.
Write(w) ==
  /\ at[w] = "write"
  /\ page' = [page EXCEPT ![w].time = clock]
  /\ \/ Goto(w, "rename") /\ UNCHANGED temp
     \/ Goto(w, "answer") /\ temp' = temp \ {w}
  /\ UNCHANGED <<file, litter, clock, crashes, unsettled, key, seen, todo, listed,
                 used>>

\* prune, files: the walk of the directory begins.
StartWalk(w) ==
  /\ Goto(w, "walk")
  /\ seen' = [seen EXCEPT ![w] = EmptyList]
  /\ todo' = [todo EXCEPT ![w] = Keys]
  /\ listed' = [listed EXCEPT ![w] = Present']
  /\ used' = [used EXCEPT ![w] = 0]
  /\ unsettled' = FALSE

\* Fault: prune is skipped while another prune runs.
Rename_SkipsPrune(w) ==
  /\ at[w] = "rename"
  /\ temp' = temp \ {w}
  /\ file' = [file EXCEPT ![key[w]] = page[w]]
  /\ IF \E v \in Workers : at[v] \in {"walk", "remove"}
     THEN Goto(w, "answer") /\ UNCHANGED <<seen, todo, listed, used, unsettled>>
     ELSE StartWalk(w)
  /\ UNCHANGED <<litter, clock, crashes, key, page>>

\* put: Rename puts the file in place and prune begins; if it fails the
\* temporary file is removed.
Rename(w) ==
  /\ at[w] = "rename"
  /\ temp' = temp \ {w}
  /\ \/ /\ file' = [file EXCEPT ![key[w]] = page[w]]
        /\ StartWalk(w)
     \/ /\ Goto(w, "answer")
        /\ UNCHANGED <<file, seen, todo, listed, used, unsettled>>
  /\ UNCHANGED <<litter, clock, crashes, key, page>>

\* The walk comes to the next path.  A file that is not there is skipped; one
\* that was put there since the walk began may be.
Visit(w) ==
  /\ at[w] = "walk"
  /\ todo[w] # {}
  /\ LET k == Min(todo[w])
     IN /\ todo' = [todo EXCEPT ![w] = @ \ {k}]
        /\ \/ /\ k \in Present
              /\ seen' = [seen EXCEPT ![w][k] = file[k]]
              /\ used' = [used EXCEPT ![w] = @ + file[k].size]
           \/ /\ k \notin Present \cap listed[w]
              /\ UNCHANGED <<seen, used>>
  /\ UNCHANGED <<file, temp, litter, clock, crashes, unsettled, at, key, page, listed>>

\* The walk is over: prune returns, or goes on to remove.
EndWalk(w) ==
  /\ at[w] = "walk"
  /\ todo[w] = {}
  /\ Goto(w, IF used[w] <= MaxBytes THEN "answer" ELSE "remove")
  /\ UNCHANGED <<file, temp, litter, clock, crashes, unsettled, key, locals>>

\* Of the files prune has not tried yet the oldest, ties broken by path.
Oldest(w) ==
  LET left == {k \in Keys : seen[w][k] # NoFile}
  IN CHOOSE k \in left : \A j \in left \ {k} :
       \/ seen[w][k].time < seen[w][j].time
       \/ seen[w][k].time = seen[w][j].time /\ k < j

\* prune removes whatever has the oldest listed path now; a removal that
\* succeeds is counted with the size the walk saw.
RemoveOldest(w) ==
  /\ at[w] = "remove"
  /\ used[w] > MaxBytes /\ seen[w] # EmptyList
  /\ LET k == Oldest(w)
     IN /\ file' = [file EXCEPT ![k] = NoFile]
        /\ used' = IF k \in Present
                   THEN [used EXCEPT ![w] = @ - seen[w][k].size] ELSE used
        /\ seen' = [seen EXCEPT ![w][k] = NoFile]
  /\ UNCHANGED <<temp, litter, clock, crashes, unsettled, at, key, page, todo, listed>>

\* Fault: prune does not stop until it has seen the budget met.
EndRemove_NeedsBudget(w) ==
  /\ at[w] = "remove"
  /\ used[w] <= MaxBytes
  /\ Goto(w, "answer")
  /\ UNCHANGED <<file, temp, litter, clock, crashes, unsettled, key, locals>>

EndRemove(w) ==
  /\ at[w] = "remove"
  /\ used[w] <= MaxBytes \/ seen[w] = EmptyList
  /\ Goto(w, "answer")
  /\ UNCHANGED <<file, temp, litter, clock, crashes, unsettled, key, locals>>

\* The workers in W leave Do and their locals are gone.
Forget(W) ==
  /\ at' = [w \in Workers |-> IF w \in W THEN "idle" ELSE at[w]]
  /\ key' = [w \in Workers |-> IF w \in W THEN 0 ELSE key[w]]
  /\ page' = [w \in Workers |-> IF w \in W THEN NoPage ELSE page[w]]
  /\ seen' = [w \in Workers |-> IF w \in W THEN EmptyList ELSE seen[w]]
  /\ todo' = [w \in Workers |-> IF w \in W THEN {} ELSE todo[w]]
  /\ listed' = [w \in Workers |-> IF w \in W THEN {} ELSE listed[w]]
  /\ used' = [w \in Workers |-> IF w \in W THEN 0 ELSE used[w]]

\* Do returns after a hit of the first lookup.
Return(w) ==
  /\ at[w] = "return"
  /\ Forget({w})
  /\ UNCHANGED <<file, temp, litter, clock, crashes, unsettled>>

\* The leader's function has returned: it answers those who share the load.
Answer(w) ==
  /\ at[w] = "answer"
  /\ Forget({w} \cup {v \in Workers : Sharing(v, w) /\ at[v] = "share"})
  /\ UNCHANGED <<file, temp, litter, clock, crashes, unsettled>>

\* The process of an instance dies: its temporary files stay, and so does what
\* its prunes had still to remove.
Crash(i) ==
  LET dead == {w \in Workers : instance[w] = i}
  IN /\ crashes < MaxCrashes
     /\ \E w \in dead : at[w] # "idle"
     /\ crashes' = crashes + 1
     /\ litter' = (litter \/ temp \cap dead # {})
     /\ temp' = temp \ dead
     /\ unsettled' = (unsettled \/ \E w \in dead : at[w] \in {"walk", "remove"})
     /\ Forget(dead)
     /\ UNCHANGED <<file, clock>>

Tick ==
  /\ clock < MaxClock
  /\ clock' = clock + 1
  /\ UNCHANGED <<file, temp, litter, crashes, unsettled, at, key, locals>>

\* The steps of a worker that is inside Do.
Step(w) ==
  \/ ReadHit(w) \/ TouchFile(w) \/ ReadMiss(w) \/ ReadMissAgain(w)
  \/ Render(w) \/ Create(w) \/ Write(w) \/ Rename(w)
  \/ Visit(w) \/ EndWalk(w) \/ RemoveOldest(w) \/ EndRemove(w)
  \/ Return(w) \/ Answer(w)

Next ==
  /\ \/ \E w \in Workers : Step(w) \/ \E k \in Keys : Call(w, k)
     \/ \E w \in Workers : Crash(instance[w])
     \/ Tick
  /\ UNCHANGED instance

Spec == Init /\ [][Next]_vars

\* Goroutines are scheduled, system calls return, and load() returns.
FairSpec == Spec /\ \A w \in Workers : WF_vars(Step(w) /\ UNCHANGED instance)

--------------------------------------------------------------------------------
TypeOK ==
  /\ file \in [Keys -> Files \cup {NoFile}]
  /\ temp \subseteq Workers
  /\ litter \in BOOLEAN /\ unsettled \in BOOLEAN
  /\ clock \in 0..MaxClock
  /\ crashes \in 0..MaxCrashes
  /\ at \in [Workers -> {"idle", "get", "touch", "return", "share", "getagain",
                         "touchagain", "render", "create", "write", "rename",
                         "walk", "remove", "answer"}]
  /\ key \in [Workers -> Keys \cup {0}]
  /\ page \in [Workers -> Files \cup {NoPage}]
  /\ seen \in [Workers -> [Keys -> Files \cup {NoFile}]]
  /\ todo \in [Workers -> SUBSET Keys]
  /\ listed \in [Workers -> SUBSET Keys]
  /\ used \in [Workers -> Int]

\* Whenever no prune is running the files fit in the budget, whatever prunes
\* and writes of other processes overlapped; only a directory that was too big
\* before, or a prune that died, delays this until the next prune.
QuiescentBudget ==
  (\A w \in Workers : at[w] \notin {"walk", "remove"}) /\ ~unsettled
    => Total(file) <= MaxBytes

\* Nobody is served a page that was not written to its end, be it read while it
\* was written or after a crash in the middle of writing it.
OnlyWholePages ==
  \A w \in Workers : at[w] \in {"touch", "touchagain"} => page[w].whole

\* Every temporary file belongs to a worker that will rename or remove it; only
\* a crash leaves one for good.
NoLitter ==
  /\ litter => crashes > 0
  /\ \A w \in temp : at[w] \in {"write", "rename"}

\* Every Do returns: overlapping prunes end even if other processes remove the
\* files one of them counts on.
EveryDoReturns ==
  \A w \in Workers : at[w] # "idle" ~> at[w] = "idle"
================================================================================
