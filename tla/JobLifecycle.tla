---------------------------- MODULE JobLifecycle ----------------------------
(***************************************************************************)
(* A long job a Durable Object owns through its alarm: the class           *)
(* JobLifecycle of job/lifecycle.ts over WakeMap.  The object that owns    *)
(* the job is outside the repository; it is modelled as the comments of    *)
(* lifecycle.ts and its tests use the class: a gate arms, the alarm or a   *)
(* caller claims and starts a run, a drain waits for it and records its    *)
(* verdict, and a watch re-attaches to a run nobody drains.                *)
(*                                                                         *)
(* Storage calls hold the input gate, so a method is one step; but after   *)
(* any of its writes the object may die, or the next write may throw.      *)
(* `cut` is the number of writes that were made, 5 when all were.          *)
(***************************************************************************)
EXTENDS WakeMap

CONSTANTS JobTimeout,   \* the job's own budget
          StaleMs,      \* what it is given beyond that before it is presumed dead
          WatchMs,      \* between two looks of the watch
          ArmCooldown,  \* the floor between two armings
          LastStart,    \* bound: no arming, new job or crash after this moment
          LastMoment    \* bound: the clock stops here

ASSUME JobAssumption ==
  /\ {JobTimeout, StaleMs, WatchMs, ArmCooldown, LastStart, LastMoment} \subseteq Nat
  /\ {"run", "watch"} \subseteq Keys

VARIABLES now,       \* Date.now()
          record,    \* the state record, with its startedAt while running
          armed,     \* `<id>:armed`
          lastArmed, \* `<id>:last-armed`
          context,   \* startedAt of `<id>:context`
          drains,    \* the drains attached in this isolate
          serving,   \* the alarm's handler: "no", at work, or "lost" with the object
          due,       \* the intents it read as due and has not served yet
          owed       \* history: a chain was cut between the row and the alarm, or repaired

jobVars == <<record, armed, lastArmed, context>>
handlerVars == <<serving, due>>
vars == <<intents, alarm, now, record, armed, lastArmed, context, drains, serving, due, owed>>

Outcomes == {"done", "failed"}
Settled(s) == [state |-> s, startedAt |-> Unset]
Running(t) == [state |-> "running", startedAt |-> t]
Records == {Settled(s) : s \in Outcomes \cup {"idle", "skipped"}} \cup {Running(t) : t \in Nat}

\* A drain holds the stamp it captured and its latch; `newest` is history: no
\* start was made, whole or cut, after that of the run it watches.
Drains == [stamp : Times, superseded : BOOLEAN, newest : BOOLEAN]

TypeOK == /\ intents \in [Keys -> Times]
          /\ alarm \in Times
          /\ now \in Nat
          /\ record \in Records
          /\ {armed, lastArmed, context} \subseteq Times
          /\ drains \subseteq Drains
          /\ serving \in {"no", "yes", "lost"}
          /\ due \subseteq Keys
          /\ owed \in BOOLEAN

Init == /\ intents = [k \in Keys |-> Unset]
        /\ alarm = Unset
        /\ now = 0
        /\ record \in {Settled(s) : s \in {"idle", "skipped", "done"}}
        /\ armed = Unset
        /\ lastArmed = Unset
        /\ context = Unset
        /\ drains = {}
        /\ serving = "no"
        /\ due = {}
        /\ owed = FALSE

IsRearmable(r) == r.state \in Outcomes

Cooled == lastArmed = Unset \/ now - lastArmed >= ArmCooldown

IsStaleEarly(r) == now - r.startedAt > StaleMs \* Regression

IsStale(r) == now - r.startedAt > JobTimeout + StaleMs

ClaimNever(r, takeOver) == r.state # "running" \/ r.startedAt = takeOver \* Regression

\* claim(): the alarm's own placeholder, by its exact stamp, or a dead record.
Claim(r, takeOver) == \/ r.state # "running"
                      \/ r.startedAt = takeOver
                      \/ IsStale(r)

\* The stamps are milliseconds: no run is started, or job armed, within the
\* millisecond in which the run before it was started.
Distinct == context < now

\* The writes of set() or clear() that are the n-th and the next of a chain.
UpTo(cut, n) == IF cut < n THEN "none" ELSE IF cut = n THEN "row" ELSE "all"

\* What is left in memory once the object died; an alarm whose handler did not
\* return is fired again.
Dies ==
  /\ drains' = {}
  /\ serving' = IF serving = "yes" THEN "lost" ELSE serving
  /\ due' = {}

\* A chain is cut by a death, or by a write that throws: the old drains stay; or
\* it runs to its end, and may add one.
Ends(cut, old, added) ==
  \/ cut < 5 /\ Dies
  \/ /\ drains' = old \cup (IF cut = 5 THEN added ELSE {})
     /\ UNCHANGED handlerVars

------------------------------------------------------------------------------
(* Arming, by a gate that finds the job cold *)

Arm(cut) ==
  /\ now <= LastStart
  /\ IsRearmable(record) /\ Cooled /\ Distinct
  /\ record' = IF cut >= 1 THEN Running(now) ELSE record
  /\ armed' = IF cut >= 2 THEN now ELSE armed
  /\ lastArmed' = IF cut >= 3 THEN now ELSE lastArmed
  /\ SetIntent("run", now, UpTo(cut, 4))
  /\ owed' = (cut = 4 \/ (cut < 4 /\ owed))
  /\ Ends(cut, drains, {})
  /\ UNCHANGED <<now, context>>

\* wake.set() throws, at the row or at the alarm: the record is put back, the
\* floor is kept, and the stamp goes unless deleting it fails, which is swallowed.
\* Where putting the record back throws too, Arm was cut and the placeholder stays.
ArmThrows(upTo) ==
  /\ now <= LastStart
  /\ IsRearmable(record) /\ Cooled /\ Distinct
  /\ upTo \in {"none", "row"}
  /\ SetIntent("run", now, upTo)
  /\ lastArmed' = now
  /\ armed' \in {Unset, now}
  /\ owed' = (upTo = "row" \/ owed)
  /\ UNCHANGED <<now, record, context, drains, serving, due>>

------------------------------------------------------------------------------
(* The owner: starting, draining and watching a run *)

\* putContext, write, clearArmed, armWatch, then the spawn and its drain.
Start(cut) ==
  /\ Distinct
  /\ context' = IF cut >= 1 THEN now ELSE context
  /\ record' = IF cut >= 2 THEN Running(now) ELSE record
  /\ armed' = IF cut >= 3 THEN Unset ELSE armed
  /\ SetIntent("watch", now + WatchMs, UpTo(cut, 4))
  /\ owed' = (cut = 4 \/ (cut < 4 /\ owed))
  /\ Ends(cut, {[d EXCEPT !.newest = FALSE] : d \in drains},
                {[stamp |-> now, superseded |-> FALSE, newest |-> TRUE]})
  /\ UNCHANGED <<now, lastArmed>>

\* A caller asks for the job.  Over a settled record only while jobs are new;
\* a stale one is asked for until it is free.
ColdStart(cut) ==
  /\ record.state = "running" \/ now <= LastStart
  /\ Claim(record, Unset)
  /\ Start(cut)

AlarmFires ==
  /\ \/ serving = "no" /\ alarm # Unset /\ alarm <= now
     \/ serving = "lost"
  /\ alarm' = IF serving = "no" THEN Unset ELSE alarm
  /\ serving' = "yes"
  /\ due' = Due(intents, now)
  /\ UNCHANGED <<intents, now, jobVars, drains, owed>>

\* due() is sorted by deadline.
First(key) == /\ key \in due
              /\ \A k \in due \cap Pending(intents) : intents[key] <= intents[k]

\* The alarm presents the stamp it finds armed; without one there is nothing of
\* its own to start.
RunStarts(cut) ==
  /\ First("run")
  /\ armed # Unset /\ Claim(record, armed)
  /\ Start(cut)

RunServed ==
  /\ First("run")
  /\ armed = Unset \/ ~Claim(record, armed)
  /\ ClearIntent("run", "all")
  /\ owed' = (owed /\ intents["run"] = Unset)
  /\ due' = due \ {"run"}
  /\ UNCHANGED <<now, jobVars, drains, serving>>

Attached == \E d \in drains : d.stamp = context

\* A running record is a run's own only under its stamp, with none armed; else
\* it is a placeholder.
Attachable == record.startedAt = context /\ armed # context /\ ~Attached

\* Someone drains, or the run may still be alive: attach if need be, look again later.
WatchAgain ==
  /\ record.state = "running"
  /\ Attached \/ ~IsStale(record)
  /\ SetIntent("watch", now + WatchMs, "all")
  /\ drains' = IF Attachable
               THEN drains \cup {[stamp |-> context, superseded |-> FALSE, newest |-> TRUE]}
               ELSE drains
  /\ owed' = FALSE
  /\ UNCHANGED record

\* Nothing runs, or nothing can be running any more.
WatchOver ==
  /\ record.state = "running" => ~Attached /\ IsStale(record)
  /\ record' = IF record.state = "running" THEN Settled("failed") ELSE record
  /\ ClearIntent("watch", "all")
  /\ owed' = (owed /\ intents["watch"] = Unset)
  /\ UNCHANGED drains

WatchServed == /\ First("watch")
               /\ WatchAgain \/ WatchOver
               /\ due' = due \ {"watch"}
               /\ UNCHANGED <<now, armed, lastArmed, context, serving>>

OtherServed(key) == /\ key \notin {"run", "watch"}
                    /\ First(key)
                    /\ ClearIntent(key, "all")
                    /\ owed' = (owed /\ intents[key] = Unset)
                    /\ due' = due \ {key}
                    /\ UNCHANGED <<now, jobVars, drains, serving>>

HandlerEnds == /\ serving = "yes" /\ due = {}
               /\ alarm' = Rearmed(intents, alarm)
               /\ serving' = "no"
               /\ owed' = FALSE
               /\ UNCHANGED <<intents, now, jobVars, drains, due>>

\* The handler failed before it could work out what it owed.
HandlerFails == /\ serving = "yes"
                /\ alarm' = Repaired(alarm, now)
                /\ serving' = "no"
                /\ due' = {}
                /\ owed' = TRUE
                /\ now <= LastStart
                /\ UNCHANGED <<intents, now, jobVars, drains>>

\* generation(): the latch, then the stamp on disk.
StillMineForever(d) == ~d.superseded \* Regression

StillMine(d) == ~d.superseded /\ context = d.stamp

DrainChecks(d) ==
  /\ ~StillMine(d) /\ ~d.superseded
  /\ drains' = (drains \ {d}) \cup {[d EXCEPT !.superseded = TRUE]}
  /\ UNCHANGED <<wakeVars, now, jobVars, handlerVars, owed>>

DrainEndsDisarming(d, outcome) == \* Regression
  /\ record' = IF StillMine(d) THEN Settled(outcome) ELSE record
  /\ ClearIntent("watch", "all")
  /\ owed' = (owed /\ intents["watch"] = Unset)
  /\ drains' = drains \ {d}
  /\ UNCHANGED <<now, armed, lastArmed, context, handlerVars>>

\* The command has returned: the verdict and then the watchdog, both only if the
\* record is still this drain's.  clearWatch swallows its fault.
DrainEnds(d, outcome) ==
  /\ record' = IF StillMine(d) THEN Settled(outcome) ELSE record
  /\ \/ /\ IF StillMine(d) THEN ClearIntent("watch", "all") ELSE UNCHANGED wakeVars
        /\ owed' = (owed /\ (StillMine(d) => intents["watch"] = Unset))
     \/ /\ StillMine(d)
        /\ ClearIntent("watch", "row")
        /\ owed' = TRUE
     \/ UNCHANGED <<wakeVars, owed>>
  /\ drains' = drains \ {d}
  /\ UNCHANGED <<now, armed, lastArmed, context, handlerVars>>

------------------------------------------------------------------------------
(* The rest of the object, and the world *)

OtherSets(key) == /\ key \notin {"run", "watch"}
                         /\ now <= LastStart
                         /\ SetIntent(key, now + 1, "all")
                         /\ owed' = FALSE
                         /\ UNCHANGED <<now, jobVars, drains, handlerVars>>

Crash == /\ now <= LastStart
         /\ Dies
         /\ UNCHANGED <<wakeVars, now, jobVars, owed>>

Tick == /\ now < LastMoment
        /\ now' = now + 1
        /\ UNCHANGED <<wakeVars, jobVars, drains, handlerVars, owed>>

\* Before the bound a chain may be cut anywhere; after it the object lives.
Cuts == IF now <= LastStart THEN 1..5 ELSE {5}

Finished == /\ now = LastMoment
            /\ record.state # "running" /\ drains = {} /\ serving = "no"
            /\ alarm = Unset \/ alarm > now
            /\ UNCHANGED vars

Gate == \E cut \in Cuts : Arm(cut)
GateRefused == \E upTo \in {"none", "row"} : ArmThrows(upTo)
Asked == \E cut \in Cuts : ColdStart(cut)
Serve == \/ \E cut \in Cuts : RunStarts(cut)
         \/ RunServed
         \/ WatchServed
         \/ \E key \in Keys : OtherServed(key)
         \/ HandlerEnds
Drain == \E d \in drains : \/ DrainChecks(d)
                           \/ \E outcome \in Outcomes : DrainEnds(d, outcome)

Next == \/ Gate \/ GateRefused \/ Asked
        \/ AlarmFires \/ Serve \/ HandlerFails
        \/ Drain
        \/ \E key \in Keys : OtherSets(key)
        \/ Crash \/ Tick \/ Finished

Spec == Init /\ [][Next]_vars

\* The clock goes on, due alarms fire and their handler goes on, a command comes
\* to an end, and whoever waits for the job asks again.
FairSpec == /\ Spec
            /\ WF_vars(Tick) /\ WF_vars(AlarmFires) /\ WF_vars(Serve)
            /\ WF_vars(Drain) /\ WF_vars(Asked)

------------------------------------------------------------------------------
(* Properties *)

\* The one alarm is never later than a pending deadline, whoever set or cleared
\* an intent last, but for a chain cut in the middle or a handler that failed.
AlarmCovers == owed \/ serving # "no" \/ Covered

\* Whoever still waits for the run on record is backed by the watchdog: a drain
\* that was superseded, or a look of the watch itself, never disarms it.
WatchKept == (\E d \in drains : StillMine(d)) => intents["watch"] # Unset

\* A drain that outlives its run never writes its verdict over a later job.
VerdictIsOfNewest ==
  [][\A d \in drains \ drains' :
       (record' # record /\ record'.state \in Outcomes) => d.newest]_vars

\* A run somebody drains is not displaced within its budget and grace.
LiveRunKept ==
  [][\A d \in drains : (d.newest /\ [d EXCEPT !.newest = FALSE] \in drains')
       => now - d.stamp > JobTimeout + StaleMs]_vars

\* No placeholder, dead run or cut chain blocks the job for ever: once crashes
\* and new jobs end, the record comes to rest.
JobSettles == <>[](record.state # "running" /\ drains = {})
=============================================================================
