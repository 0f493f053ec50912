----------------------------- MODULE JobProofs -----------------------------
(***************************************************************************)
(* What holds of a job and its wake-ups for every set of keys, every       *)
(* timeout, grace, watch period and cooldown: the types, the covering of   *)
(* the intents by the one alarm, and that a live run is backed by its      *)
(* watchdog, not displaced, and the only one to give a verdict.            *)
(***************************************************************************)
EXTENDS JobLifecycle, WellFoundedInduction, TLAPS

\* What every guard about a running job comes down to: the drain of the newest
\* run is the one under the stamp on disk, and nothing has been armed over it.
NewestIsEntitled ==
  \A d \in drains : d.newest => /\ StillMine(d)
                                /\ record = Running(context)
                                /\ armed # context

\* A drain under the stamp on disk is never of an older run.
EntitledIsNewest == \A d \in drains : d.stamp = context => d.newest

Past == \A d \in drains : d.stamp <= context

Stamps == NewestIsEntitled /\ EntitledIsNewest /\ Past /\ context <= now

StampsInv == TypeOK /\ Stamps

USE DEF Unset, Times

------------------------------------------------------------------------------
(* The wake map *)

\* The earliest deadline of a map that has one is a deadline, and the least.
LEMMA EarliestIsLeast ==
  ASSUME NEW map \in [Keys -> Times], Pending(map) # {}
  PROVE  /\ Earliest(map) \in Nat
         /\ \A k \in Pending(map) : Earliest(map) <= map[k]
<1> DEFINE D == {map[k] : k \in Pending(map)}
<1>1. D \subseteq Nat /\ D # {}
  BY DEF Pending
<1> DEFINE R == {ss \in Nat \X Nat : ss[1] < ss[2]}
<1>r. R = OpToRel(<, Nat)
  BY DEF OpToRel
<1>w. IsWellFoundedOn(R, Nat)
  BY <1>r, NatLessThanWellFounded
<1> HIDE DEF D
<1>2. PICK t \in D : \A u \in D : ~(<<u, t>> \in R)
  BY <1>1, <1>w, WFMin
<1>3. ASSUME NEW u \in D PROVE t <= u
  <2>1. t \in Nat /\ u \in Nat
    BY <1>1
  <2>2. u < t => <<u, t>> \in R
    BY <2>1
  <2> QED BY <1>2, <2>1, <2>2
<1> QED BY <1>1, <1>2, <1>3 DEF Earliest, D

\* The chain of a set or a clear leaves a map and an alarm of the right type.
LEMMA StoresTypes ==
  ASSUME TypeOK, NEW map \in [Keys -> Times], NEW upTo, Stores(map, upTo)
  PROVE  intents' \in [Keys -> Times] /\ alarm' \in Times
BY EarliestIsLeast DEF TypeOK, Stores, Rearmed

\* A chain that was not cut leaves the alarm no later than any deadline.
LEMMA StoresCovers ==
  ASSUME TypeOK, NEW map \in [Keys -> Times], Stores(map, "all")
  PROVE  Covered'
<1>1. intents' = map /\ alarm' = Rearmed(map, alarm)
  BY DEF Stores
<1>2. CASE Pending(map) = {}
  BY <1>1, <1>2 DEF Covered, Pending
<1>3. CASE Pending(map) # {}
  <2>1. /\ Earliest(map) \in Nat
        /\ \A k \in Pending(map) : Earliest(map) <= map[k]
    BY <1>3, EarliestIsLeast
  <2>2. alarm' # Unset /\ alarm' \in Int /\ alarm' <= Earliest(map)
    BY <1>1, <1>3, <2>1 DEF Rearmed, TypeOK
  <2>3. \A k \in Pending(map) : map[k] \in Int
    BY DEF Pending
  <2> QED BY <1>1, <2>1, <2>2, <2>3 DEF Covered, Pending
<1> QED BY <1>2, <1>3

\* One write changes a map to a map.
LEMMA MapTypes ==
  ASSUME TypeOK, NEW key \in Keys, NEW t \in Times
  PROVE  /\ With(intents, key, t) \in [Keys -> Times]
         /\ Without(intents, key) \in [Keys -> Times]
BY DEF TypeOK, With, Without

------------------------------------------------------------------------------
(* Types *)

USE DEF Outcomes, Records, Drains, Settled, Running, jobVars, handlerVars, wakeVars

\* Every set, clear and cut of one of them has the right type.
LEMMA IntentTypes ==
  ASSUME TypeOK, NEW key \in Keys
  PROVE  /\ \A t \in Nat, upTo \in Writes :
              SetIntent(key, t, upTo) => intents' \in [Keys -> Times] /\ alarm' \in Times
         /\ \A upTo \in Writes :
              ClearIntent(key, upTo) => intents' \in [Keys -> Times] /\ alarm' \in Times
<1>1. \A t \in Nat, upTo \in Writes :
        SetIntent(key, t, upTo) => intents' \in [Keys -> Times] /\ alarm' \in Times
  BY MapTypes, StoresTypes DEF SetIntent
<1>2. \A upTo \in Writes :
        ClearIntent(key, upTo) => intents' \in [Keys -> Times] /\ alarm' \in Times
  BY MapTypes, StoresTypes DEF ClearIntent, TypeOK
<1> QED BY <1>1, <1>2

LEMMA UpToIsWrites == \A cut, n : UpTo(cut, n) \in Writes
BY DEF UpTo, Writes

LEMMA TypeStep == TypeOK /\ [Next]_vars => TypeOK'
<1> SUFFICES ASSUME TypeOK, [Next]_vars PROVE TypeOK'
  OBVIOUS
<1>k. {"run", "watch"} \subseteq Keys /\ WatchMs \in Nat /\ RepairDelay \in Nat
  BY JobAssumption, WakeMapAssumption
<1>w. {"none", "row", "all"} \subseteq Writes
  BY DEF Writes
<1>a. ASSUME NEW cut \in Cuts, Arm(cut) PROVE TypeOK'
  <2>1. intents' \in [Keys -> Times] /\ alarm' \in Times
    BY <1>a, <1>k, IntentTypes, UpToIsWrites DEF Arm, TypeOK
  <2>2. /\ drains' \subseteq Drains /\ serving' \in {"no", "yes", "lost"} /\ due' \subseteq Keys
    BY <1>a DEF Arm, Ends, Dies, TypeOK
  <2> QED BY <1>a, <2>1, <2>2 DEF Arm, TypeOK
<1>b. ASSUME NEW upTo \in {"none", "row"}, ArmThrows(upTo) PROVE TypeOK'
  <2>1. intents' \in [Keys -> Times] /\ alarm' \in Times
    BY <1>b, <1>k, <1>w, IntentTypes DEF ArmThrows, TypeOK
  <2> QED BY <1>b, <2>1 DEF ArmThrows, TypeOK
<1>s. ASSUME NEW cut \in Cuts, Start(cut) PROVE TypeOK'
  <2>1. intents' \in [Keys -> Times] /\ alarm' \in Times
    <3>1. now + WatchMs \in Nat
      BY <1>k DEF TypeOK
    <3>2. SetIntent("watch", now + WatchMs, UpTo(cut, 4))
      BY <1>s DEF Start
    <3> QED BY <3>1, <3>2, <1>k, IntentTypes, UpToIsWrites
  <2>2. /\ drains' \subseteq Drains /\ serving' \in {"no", "yes", "lost"} /\ due' \subseteq Keys
    <3>1. \A d \in drains : [d EXCEPT !.newest = FALSE] \in Drains
      BY DEF TypeOK
    <3>2. [stamp |-> now, superseded |-> FALSE, newest |-> TRUE] \in Drains
      BY DEF TypeOK
    <3> HIDE DEF Drains
    <3> DEFINE Old == {[d EXCEPT !.newest = FALSE] : d \in drains}
               New == {[stamp |-> now, superseded |-> FALSE, newest |-> TRUE]}
    <3>3. Old \subseteq Drains /\ New \subseteq Drains
      BY <3>1, <3>2
    <3>4. Ends(cut, Old, New)
      BY <1>s DEF Start
    <3> HIDE DEF Old, New
    <3> QED BY <3>3, <3>4 DEF Ends, Dies, TypeOK
  <2> QED BY <1>s, <2>1, <2>2 DEF Start, TypeOK
<1>c. CASE AlarmFires
  BY <1>c DEF AlarmFires, TypeOK, Due, Pending
<1>d. CASE RunServed
  BY <1>d, <1>k, <1>w, IntentTypes DEF RunServed, TypeOK
<1>e. CASE WatchServed
  <2>1. CASE WatchAgain
    <3>1. now + WatchMs \in Nat /\ "all" \in Writes
      BY <1>k, <1>w DEF TypeOK
    <3>2. intents' \in [Keys -> Times] /\ alarm' \in Times
      BY <2>1, <1>k, <3>1, IntentTypes DEF WatchAgain
    <3>3. drains' \subseteq Drains
      <4>1. context \in Times /\ drains \subseteq Drains
        BY DEF TypeOK
      <4>2. [stamp |-> context, superseded |-> FALSE, newest |-> TRUE] \in Drains
        BY <4>1
      <4> HIDE DEF Drains
      <4> QED BY <2>1, <4>1, <4>2 DEF WatchAgain
    <3> QED BY <1>e, <2>1, <3>2, <3>3 DEF WatchServed, WatchAgain, TypeOK
  <2>2. CASE WatchOver
    BY <1>e, <2>2, <1>k, <1>w, IntentTypes DEF WatchServed, WatchOver, TypeOK
  <2> QED BY <1>e, <2>1, <2>2 DEF WatchServed
<1>f. ASSUME NEW key \in Keys, OtherServed(key) PROVE TypeOK'
  BY <1>f, <1>w, IntentTypes DEF OtherServed, TypeOK
<1>g. CASE HandlerEnds
  BY <1>g, EarliestIsLeast DEF HandlerEnds, TypeOK, Rearmed
<1>h. CASE HandlerFails
  BY <1>h, <1>k DEF HandlerFails, TypeOK, Repaired
<1>i. ASSUME NEW d \in drains, DrainChecks(d) PROVE TypeOK'
  BY <1>i DEF DrainChecks, TypeOK
<1>j. ASSUME NEW d \in drains, NEW outcome \in Outcomes, DrainEnds(d, outcome) PROVE TypeOK'
  <2>1. intents' \in [Keys -> Times] /\ alarm' \in Times
    BY <1>j, <1>k, <1>w, IntentTypes DEF DrainEnds, TypeOK
  <2> QED BY <1>j, <2>1 DEF DrainEnds, TypeOK
<1>l. ASSUME NEW key \in Keys, OtherSets(key) PROVE TypeOK'
  <2>1. now + 1 \in Nat /\ "all" \in Writes
    BY <1>w DEF TypeOK
  <2>2. intents' \in [Keys -> Times] /\ alarm' \in Times
    BY <1>l, <2>1, IntentTypes DEF OtherSets
  <2> QED BY <1>l, <2>2 DEF OtherSets, TypeOK
<1>m. CASE Crash
  BY <1>m DEF Crash, Dies, TypeOK
<1>n. CASE Tick
  BY <1>n DEF Tick, TypeOK
<1>o. CASE UNCHANGED vars
  BY <1>o DEF vars, TypeOK
<1> QED BY <1>a, <1>b, <1>s, <1>c, <1>d, <1>e, <1>f, <1>g, <1>h, <1>i, <1>j, <1>l, <1>m, <1>n, <1>o
        DEF Next, Gate, GateRefused, Asked, Serve, Drain, ColdStart, RunStarts, Finished

LEMMA TypeInit == Init => TypeOK
<1> SUFFICES ASSUME Init PROVE TypeOK
  OBVIOUS
<1>1. record \in Records
  BY DEF Init
<1>2. intents \in [Keys -> Times] /\ drains \subseteq Drains /\ due \subseteq Keys
  BY DEF Init
<1> QED BY <1>1, <1>2 DEF Init, TypeOK

\* Every variable keeps its type, for every set of keys and every period.
THEOREM TypeCorrect == Spec => []TypeOK
BY TypeInit, TypeStep, PTL DEF Spec

------------------------------------------------------------------------------
(* The alarm covers the intents *)

LEMMA SetCovers ==
  ASSUME TypeOK, NEW key \in Keys, NEW t \in Nat, SetIntent(key, t, "all")
  PROVE  Covered'
BY MapTypes, StoresCovers DEF SetIntent

\* A key that is not held leaves what was covered, covered.
LEMMA ClearCovers ==
  ASSUME TypeOK, NEW key \in Keys, ClearIntent(key, "all"), Covered \/ intents[key] # Unset
  PROVE  Covered'
<1>1. CASE intents[key] = Unset
  BY <1>1 DEF ClearIntent, Covered, Pending
<1>2. CASE intents[key] # Unset
  BY <1>2, MapTypes, StoresCovers DEF ClearIntent
<1> QED BY <1>1, <1>2

LEMMA CoverStep == TypeOK /\ AlarmCovers /\ [Next]_vars => AlarmCovers'
<1> SUFFICES ASSUME TypeOK, AlarmCovers, [Next]_vars PROVE AlarmCovers'
  OBVIOUS
<1>k. {"run", "watch"} \subseteq Keys /\ WatchMs \in Nat
  BY JobAssumption
<1>t. now + 1 \in Nat /\ now + WatchMs \in Nat /\ now \in Nat
  BY <1>k DEF TypeOK
<1> DEFINE Same == UNCHANGED wakeVars
<1>u. Same /\ Covered => Covered'
  BY DEF Covered, Pending
<1>n. \A map : Stores(map, "none") => Same
  BY DEF Stores
<1>a. ASSUME NEW cut \in 1..5, Arm(cut) PROVE AlarmCovers'
  <2>1. CASE cut < 4
    <3>1. UpTo(cut, 4) = "none" /\ owed' = owed
      BY <1>a, <2>1 DEF Arm, UpTo, TypeOK
    <3>2. Same /\ (serving # "no" => serving' # "no")
      BY <1>a, <3>1, <1>n DEF Arm, Ends, Dies, SetIntent
    <3> QED BY <3>1, <3>2, <1>u DEF AlarmCovers
  <2>2. CASE cut = 4
    BY <1>a, <2>2 DEF Arm, AlarmCovers
  <2>3. CASE cut = 5
    <3>1. UpTo(cut, 4) = "all"
      BY <2>3 DEF UpTo
    <3> QED BY <1>a, <1>k, <1>t, <3>1, SetCovers DEF Arm, AlarmCovers
  <2> QED BY <2>1, <2>2, <2>3
<1>b. ASSUME NEW upTo \in {"none", "row"}, ArmThrows(upTo) PROVE AlarmCovers'
  <2>1. CASE upTo = "none"
    <3>1. Same
      BY <1>b, <2>1, <1>n DEF ArmThrows, SetIntent
    <3> QED BY <1>b, <2>1, <3>1, <1>u DEF ArmThrows, AlarmCovers
  <2>2. CASE upTo = "row"
    BY <1>b, <2>2 DEF ArmThrows, AlarmCovers
  <2> QED BY <2>1, <2>2
<1>s. ASSUME NEW cut \in 1..5, Start(cut) PROVE AlarmCovers'
  <2>1. CASE cut < 4
    <3>1. UpTo(cut, 4) = "none" /\ owed' = owed
      BY <1>s, <2>1 DEF Start, UpTo, TypeOK
    <3>2. Same /\ (serving # "no" => serving' # "no")
      BY <1>s, <3>1, <1>n DEF Start, Ends, Dies, SetIntent
    <3> QED BY <3>1, <3>2, <1>u DEF AlarmCovers
  <2>2. CASE cut = 4
    BY <1>s, <2>2 DEF Start, AlarmCovers
  <2>3. CASE cut = 5
    <3>1. UpTo(cut, 4) = "all"
      BY <2>3 DEF UpTo
    <3> QED BY <1>s, <1>k, <1>t, <3>1, SetCovers DEF Start, AlarmCovers
  <2> QED BY <2>1, <2>2, <2>3
<1>c. CASE AlarmFires
  BY <1>c DEF AlarmFires, AlarmCovers
<1>d. CASE RunServed
  BY <1>d, <1>k, ClearCovers DEF RunServed, AlarmCovers
<1>e. CASE WatchServed
  <2>1. CASE WatchAgain
    BY <2>1, <1>k, <1>t, SetCovers DEF WatchAgain, AlarmCovers
  <2>2. CASE WatchOver
    BY <1>e, <2>2, <1>k, ClearCovers DEF WatchServed, WatchOver, AlarmCovers
  <2> QED BY <1>e, <2>1, <2>2 DEF WatchServed
<1>f. ASSUME NEW key \in Keys, OtherServed(key) PROVE AlarmCovers'
  BY <1>f, ClearCovers DEF OtherServed, AlarmCovers
<1>g. CASE HandlerEnds
  <2>1. Stores(intents, "all")
    BY <1>g DEF HandlerEnds, Stores
  <2> QED BY <2>1, StoresCovers DEF AlarmCovers, TypeOK
<1>h. CASE HandlerFails
  BY <1>h DEF HandlerFails, AlarmCovers
<1>i. ASSUME NEW d \in drains, DrainChecks(d) PROVE AlarmCovers'
  BY <1>i, <1>u DEF DrainChecks, AlarmCovers
<1>j. ASSUME NEW d \in drains, NEW outcome \in Outcomes, DrainEnds(d, outcome) PROVE AlarmCovers'
  <2>1. CASE owed'
    BY <2>1 DEF AlarmCovers
  <2>2. CASE ~owed' /\ StillMine(d) /\ ClearIntent("watch", "all") /\ owed' = (owed /\ intents["watch"] = Unset)
    BY <1>j, <2>2, <1>k, ClearCovers DEF DrainEnds, AlarmCovers
  <2>3. CASE Same /\ (owed' = owed \/ (~StillMine(d) /\ owed' = (owed /\ (StillMine(d) => intents["watch"] = Unset))))
    BY <1>j, <2>3, <1>u DEF DrainEnds, AlarmCovers, TypeOK
  <2> QED BY <1>j, <2>1, <2>2, <2>3 DEF DrainEnds, TypeOK
<1>l. ASSUME NEW key \in Keys, OtherSets(key) PROVE AlarmCovers'
  BY <1>l, <1>t, SetCovers DEF OtherSets, AlarmCovers
<1>m. CASE Crash
  BY <1>m, <1>u DEF Crash, Dies, AlarmCovers
<1>o. CASE Tick
  BY <1>o, <1>u DEF Tick, AlarmCovers
<1>p. CASE UNCHANGED vars
  BY <1>p, <1>u DEF vars, AlarmCovers
<1>x. Cuts \subseteq 1..5
  BY DEF Cuts
<1> QED BY <1>a, <1>b, <1>s, <1>c, <1>d, <1>e, <1>f, <1>g, <1>h, <1>i, <1>j, <1>l, <1>m, <1>o, <1>p, <1>x
        DEF Next, Gate, GateRefused, Asked, Serve, Drain, ColdStart, RunStarts, Finished

\* The alarm is never later than a pending deadline, save for a chain cut in the
\* middle, a handler at work or one that failed; for any set of keys.
THEOREM AlarmIsInTime == Spec => []AlarmCovers
<1>1. Init => AlarmCovers
  BY DEF Init, AlarmCovers, Covered, Pending
<1> QED BY <1>1, TypeCorrect, CoverStep, PTL DEF Spec

------------------------------------------------------------------------------
(* Drains and the record *)

LEMMA StampsInit == Init => StampsInv
BY TypeInit DEF Init, StampsInv, Stamps, NewestIsEntitled, EntitledIsNewest, Past

\* Of the newest run there is one drain.
LEMMA NewestIsOne ==
  ASSUME StampsInv
  PROVE  /\ \A d, e \in drains : d.newest /\ e.newest => d = e
         /\ \A d \in drains : StillMine(d) => d.newest
<1>1. \A d \in drains : d.newest => d = [stamp |-> context, superseded |-> FALSE, newest |-> TRUE]
  BY DEF StampsInv, Stamps, NewestIsEntitled, StillMine, TypeOK, Drains
<1> QED BY <1>1 DEF StampsInv, Stamps, EntitledIsNewest, StillMine

\* A step that leaves the record and its stamps alone may drop drains and let time pass.
LEMMA StampsRest ==
  ASSUME StampsInv, UNCHANGED <<record, armed, context>>, drains' \subseteq drains,
         now' \in Nat, now <= now'
  PROVE  Stamps'
<1>i. now \in Nat /\ context \in Int
  BY DEF TypeOK, StampsInv
<1>1. NewestIsEntitled'
  <2> SUFFICES ASSUME NEW d \in drains', d.newest
               PROVE  StillMine(d)' /\ (record = Running(context))' /\ (armed # context)'
    BY DEF NewestIsEntitled
  <2>1. StillMine(d) /\ record = Running(context) /\ armed # context
    BY DEF NewestIsEntitled, Stamps, StampsInv
  <2> QED BY <2>1 DEF StillMine, Running
<1>2. EntitledIsNewest' /\ Past'
  BY DEF EntitledIsNewest, Past, Stamps, StampsInv
<1>3. (context <= now)'
  BY <1>i DEF Stamps, StampsInv
<1> QED BY <1>1, <1>2, <1>3 DEF Stamps

\* A start, whole or cut, leaves no drain under the stamp it writes but its own.
LEMMA StartDrains ==
  ASSUME StampsInv, NEW cut \in Cuts, Start(cut)
  PROVE  /\ context' = now /\ now' = now
         /\ \A d \in drains' : \/ d.stamp < now /\ ~d.newest
                               \/ cut = 5 /\ d = [stamp |-> now, superseded |-> FALSE, newest |-> TRUE]
<1> DEFINE Old == {[d EXCEPT !.newest = FALSE] : d \in drains}
           New == {[stamp |-> now, superseded |-> FALSE, newest |-> TRUE]}
<1>t. /\ now \in Nat /\ context \in Int /\ context < now
      /\ \A d \in drains : d \in Drains /\ d.stamp \in Int /\ d.stamp <= context
  BY DEF Start, Distinct, StampsInv, Stamps, Past, TypeOK
<1>1. cut >= 1
  BY DEF Cuts
<1>2. context' = now /\ now' = now /\ Ends(cut, Old, New)
  BY <1>1 DEF Start
<1>3. \A e \in Old : e.stamp < now /\ ~e.newest
  <2>1. \A d \in drains : LET e == [d EXCEPT !.newest = FALSE]
                          IN  e.stamp = d.stamp /\ e.newest = FALSE
    BY <1>t
  <2> QED BY <2>1, <1>t
<1>4. \A e \in New : e = [stamp |-> now, superseded |-> FALSE, newest |-> TRUE]
  OBVIOUS
<1> HIDE DEF Old, New
<1>5. \A d \in drains' : d \in Old \/ (cut = 5 /\ d \in New)
  BY <1>2 DEF Ends, Dies
<1> QED BY <1>2, <1>3, <1>4, <1>5

\* Starting is the one step that can take a run's record away from its drain.
LEMMA StampsStep == StampsInv /\ [Next]_vars => StampsInv'
<1> SUFFICES ASSUME StampsInv, [Next]_vars PROVE Stamps'
  BY TypeStep DEF StampsInv
<1>t. TypeOK /\ TypeOK'
  BY TypeStep DEF StampsInv
<1>r. Stamps
  BY DEF StampsInv
<1>i. now \in Nat /\ context \in Int /\ \A d \in drains : d \in Drains /\ d.stamp \in Int
  BY <1>t DEF TypeOK
<1>a. ASSUME NEW cut \in Cuts, Arm(cut) PROVE Stamps'
  <2>1. \A d \in drains : ~d.newest
    BY <1>a, <1>r DEF Arm, IsRearmable, Stamps, NewestIsEntitled, EntitledIsNewest, Past, StillMine
  <2>2. drains' \subseteq drains
    BY <1>a DEF Arm, Ends, Dies
  <2> QED BY <1>a, <1>r, <2>1, <2>2 DEF Arm, Stamps, NewestIsEntitled, EntitledIsNewest, Past, StillMine
<1>b. ASSUME NEW upTo, ArmThrows(upTo) PROVE Stamps'
  <2>1. \A d \in drains : ~d.newest
    BY <1>b, <1>r DEF ArmThrows, IsRearmable, Stamps, NewestIsEntitled, EntitledIsNewest, Past, StillMine
  <2> QED BY <1>b, <1>r, <2>1 DEF ArmThrows, Stamps, NewestIsEntitled, EntitledIsNewest, Past, StillMine
<1>s. ASSUME NEW cut \in Cuts, Start(cut) PROVE Stamps'
  <2>1. context' = now /\ now' = now
    BY <1>s, StartDrains
  <2>2. \A d \in drains' : d.stamp <= now /\ (d.stamp = now => d.newest)
    <3>1. \A d \in drains' : d.stamp \in Int
      BY <1>t DEF TypeOK
    <3> QED BY <1>s, StartDrains, <3>1, <1>i
  <2>3. NewestIsEntitled'
    <3>1. CASE cut = 5
      <4>1. record' = Running(now) /\ armed' = Unset
        BY <1>s, <3>1 DEF Start
      <4>2. \A d \in drains' : d.newest => d.stamp = now /\ ~d.superseded
        BY <1>s, StartDrains
      <4> QED BY <2>1, <4>1, <4>2, <1>i DEF NewestIsEntitled, StillMine
    <3>2. CASE cut # 5
      BY <1>s, <3>2, StartDrains DEF NewestIsEntitled
    <3> QED BY <3>1, <3>2
  <2> QED BY <2>1, <2>2, <2>3, <1>i DEF Stamps, EntitledIsNewest, Past
<1>c. CASE AlarmFires
  BY <1>c, StampsRest, <1>i DEF AlarmFires
<1>d. CASE RunServed
  BY <1>d, StampsRest, <1>i DEF RunServed
<1>e. CASE WatchServed
  <2>1. CASE WatchAgain /\ ~Attachable
    BY <1>e, <2>1, StampsRest, <1>i DEF WatchServed, WatchAgain
  <2>2. CASE WatchAgain /\ Attachable
    <3> DEFINE new == [stamp |-> context, superseded |-> FALSE, newest |-> TRUE]
    <3>1. drains' = drains \cup {new} /\ UNCHANGED <<record, armed, context, now>>
      BY <1>e, <2>2 DEF WatchServed, WatchAgain
    <3>2. record = Running(context) /\ armed # context
      BY <2>2, <1>t DEF WatchAgain, Attachable, TypeOK
    <3>3. new.stamp = context /\ new.newest /\ ~new.superseded
      OBVIOUS
    <3> HIDE DEF new
    <3>4. NewestIsEntitled'
      <4> SUFFICES ASSUME NEW d \in drains', d.newest
                   PROVE  StillMine(d)' /\ (record = Running(context))' /\ (armed # context)'
        BY DEF NewestIsEntitled
      <4>1. StillMine(d)
        BY <3>1, <3>3, <1>r DEF Stamps, NewestIsEntitled, EntitledIsNewest, Past, StillMine
      <4> QED BY <4>1, <3>1, <3>2 DEF StillMine
    <3>5. EntitledIsNewest' /\ Past' /\ (context <= now)'
      BY <3>1, <3>3, <1>r, <1>i DEF Stamps, NewestIsEntitled, EntitledIsNewest, Past, StillMine
    <3> QED BY <3>4, <3>5 DEF Stamps
  <2>3. CASE WatchOver
    <3>1. CASE record.state = "running"
      <4>1. \A d \in drains : ~d.newest
        BY <2>3, <3>1, <1>r DEF WatchOver, Attached, Stamps, NewestIsEntitled, EntitledIsNewest, Past, StillMine
      <4> QED BY <1>e, <2>3, <4>1, <1>r DEF WatchServed, WatchOver, Stamps, NewestIsEntitled, EntitledIsNewest, Past, StillMine
    <3>2. CASE record.state # "running"
      BY <1>e, <2>3, <3>2, StampsRest, <1>i DEF WatchServed, WatchOver
    <3> QED BY <3>1, <3>2
  <2> QED BY <1>e, <2>1, <2>2, <2>3 DEF WatchServed
<1>f. ASSUME NEW key, OtherServed(key) PROVE Stamps'
  BY <1>f, <1>r DEF OtherServed, Stamps, NewestIsEntitled, EntitledIsNewest, Past, StillMine
<1>g. CASE HandlerEnds
  BY <1>g, StampsRest, <1>i DEF HandlerEnds
<1>h. CASE HandlerFails
  BY <1>h, StampsRest, <1>i DEF HandlerFails
<1>j. ASSUME NEW d \in drains, DrainChecks(d) PROVE Stamps'
  <2>1. ~d.newest /\ d.stamp # context
    BY <1>j, <1>r DEF DrainChecks, Stamps, NewestIsEntitled, EntitledIsNewest, Past, StillMine
  <2>2. \A e \in drains' : e \in drains \/ (e.stamp = d.stamp /\ e.newest = d.newest)
    BY <1>j, <1>i DEF DrainChecks
  <2> QED BY <1>j, <1>r, <2>1, <2>2, <1>i DEF DrainChecks, Stamps, NewestIsEntitled, EntitledIsNewest, Past, StillMine
<1>l. ASSUME NEW d \in drains, NEW outcome \in Outcomes, DrainEnds(d, outcome) PROVE Stamps'
  <2>1. CASE StillMine(d)
    <3>1. \A e \in drains' : ~e.newest
      BY <1>l, <2>1, NewestIsOne DEF DrainEnds
    <3> QED BY <1>l, <3>1, <1>r DEF DrainEnds, Stamps, NewestIsEntitled, EntitledIsNewest, Past, StillMine
  <2>2. CASE ~StillMine(d)
    BY <1>l, <2>2, <1>r DEF DrainEnds, Stamps, NewestIsEntitled, EntitledIsNewest, Past, StillMine
  <2> QED BY <2>1, <2>2
<1>m. ASSUME NEW key, OtherSets(key) PROVE Stamps'
  BY <1>m, <1>r DEF OtherSets, Stamps, NewestIsEntitled, EntitledIsNewest, Past, StillMine
<1>n. CASE Crash
  BY <1>n, StampsRest, <1>i DEF Crash, Dies
<1>o. CASE Tick
  BY <1>o, StampsRest, <1>i DEF Tick
<1>p. CASE UNCHANGED vars
  BY <1>p, StampsRest, <1>i DEF vars
<1> QED BY <1>a, <1>b, <1>s, <1>c, <1>d, <1>e, <1>f, <1>g, <1>h, <1>j, <1>l, <1>m, <1>n, <1>o, <1>p
        DEF Next, Gate, GateRefused, Asked, Serve, Drain, ColdStart, RunStarts, Finished

\* The strengthening that the next three theorems rest on: the drain of the newest
\* run, and only that one, holds the stamp on disk (lifecycle.ts, generation).
THEOREM StampsCorrect == Spec => []StampsInv
<1>1. StampsInv /\ UNCHANGED vars => StampsInv'
  BY StampsStep
<1> QED BY StampsInit, StampsStep, PTL DEF Spec

\* What setting or clearing one intent leaves of another.
LEMMA IntentOf ==
  ASSUME TypeOK, NEW key \in Keys, NEW t \in Times, NEW upTo \in Writes, NEW other \in Keys \ {key}
  PROVE  /\ SetIntent(key, t, upTo) => intents'[other] = intents[other]
         /\ ClearIntent(key, upTo) => intents'[other] = intents[other]
         /\ SetIntent(key, t, "all") => intents'[key] = t
BY DEF SetIntent, ClearIntent, Stores, With, Without, Writes, TypeOK

LEMMA WatchStep == StampsInv /\ StampsInv' /\ WatchKept /\ [Next]_vars => WatchKept'
<1> SUFFICES ASSUME StampsInv, StampsInv', WatchKept, [Next]_vars PROVE WatchKept'
  OBVIOUS
<1>t. TypeOK
  BY DEF StampsInv
<1>k. "watch" \in Keys /\ "run" \in Keys \ {"watch"} /\ WatchMs \in Nat /\ now \in Nat
  BY <1>t, JobAssumption DEF TypeOK
<1>n. \A d \in drains : StillMine(d) => d.newest /\ record = Running(context)
  BY NewestIsOne DEF StampsInv, Stamps, NewestIsEntitled
<1>u. ASSUME intents'["watch"] = intents["watch"], context' = context, drains' \subseteq drains
      PROVE  WatchKept'
  BY <1>u DEF WatchKept, StillMine
<1>a. ASSUME NEW cut \in Cuts, Arm(cut) PROVE WatchKept'
  <2>1. intents'["watch"] = intents["watch"]
    BY <1>a, <1>k, <1>t, UpToIsWrites, IntentOf DEF Arm
  <2> QED BY <1>a, <2>1, <1>u DEF Arm, Ends, Dies
<1>b. ASSUME NEW upTo, ArmThrows(upTo) PROVE WatchKept'
  <2>1. intents'["watch"] = intents["watch"]
    BY <1>b, <1>k, <1>t, IntentOf DEF ArmThrows, Writes
  <2> QED BY <1>b, <2>1, <1>u DEF ArmThrows
<1>s. ASSUME NEW cut \in Cuts, Start(cut) PROVE WatchKept'
  <2>1. CASE cut < 5
    <3>1. context' = now /\ \A d \in drains' : d.stamp < now
      BY <1>s, <2>1, StartDrains
    <3>2. \A d \in drains' : ~StillMine(d)'
      BY <3>1, <1>k DEF StillMine
    <3> QED BY <3>2 DEF WatchKept
  <2>2. CASE ~(cut < 5)
    <3>1. cut = 5
      BY <2>2 DEF Cuts
    <3>2. SetIntent("watch", now + WatchMs, "all")
      BY <1>s, <3>1 DEF Start, UpTo
    <3>3. now + WatchMs \in Nat
      BY <1>k
    <3>4. intents'["watch"] = now + WatchMs
      BY <3>2, <3>3, <1>k, <1>t, IntentOf DEF Writes
    <3> QED BY <3>3, <3>4 DEF WatchKept
  <2> QED BY <2>1, <2>2
<1>c. CASE AlarmFires
  BY <1>c, <1>u DEF AlarmFires
<1>d. CASE RunServed
  <2>1. intents'["watch"] = intents["watch"]
    BY <1>d, <1>k, <1>t, IntentOf DEF RunServed, Writes
  <2> QED BY <1>d, <2>1, <1>u DEF RunServed
<1>e. CASE WatchServed
  <2>1. CASE WatchAgain
    <3>1. now + WatchMs \in Nat /\ SetIntent("watch", now + WatchMs, "all")
      BY <2>1, <1>k DEF WatchAgain
    <3>2. intents'["watch"] = now + WatchMs
      BY <3>1, <1>k, <1>t, IntentOf DEF Writes
    <3> QED BY <3>1, <3>2 DEF WatchKept
  <2>2. CASE WatchOver
    <3>1. \A d \in drains : ~StillMine(d)
      BY <2>2, <1>n DEF WatchOver, Attached, StillMine
    <3> QED BY <1>e, <2>2, <3>1 DEF WatchServed, WatchOver, WatchKept, StillMine
  <2> QED BY <1>e, <2>1, <2>2 DEF WatchServed
<1>f. ASSUME NEW key \in Keys, OtherServed(key) PROVE WatchKept'
  <2>1. intents'["watch"] = intents["watch"]
    BY <1>f, <1>k, <1>t, IntentOf DEF OtherServed, Writes
  <2> QED BY <1>f, <2>1, <1>u DEF OtherServed
<1>g. CASE HandlerEnds
  BY <1>g, <1>u DEF HandlerEnds
<1>h. CASE HandlerFails
  BY <1>h, <1>u DEF HandlerFails
<1>j. ASSUME NEW d \in drains, DrainChecks(d) PROVE WatchKept'
  <2>1. \A e \in drains' : e \in drains \/ e.superseded
    BY <1>j, <1>t DEF DrainChecks, TypeOK
  <2> QED BY <1>j, <2>1 DEF DrainChecks, WatchKept, StillMine
<1>l. ASSUME NEW d \in drains, NEW outcome \in Outcomes, DrainEnds(d, outcome) PROVE WatchKept'
  <2>1. CASE StillMine(d)
    <3>1. \A e \in drains' : ~StillMine(e)
      BY <1>l, <2>1, NewestIsOne DEF DrainEnds
    <3> QED BY <1>l, <3>1 DEF DrainEnds, WatchKept, StillMine
  <2>2. CASE ~StillMine(d)
    BY <1>l, <2>2, <1>u DEF DrainEnds
  <2> QED BY <2>1, <2>2
<1>m. ASSUME NEW key \in Keys, OtherSets(key) PROVE WatchKept'
  <2>1. now + 1 \in Nat
    BY <1>k
  <2>2. intents'["watch"] = intents["watch"]
    BY <1>m, <2>1, <1>k, <1>t, IntentOf DEF OtherSets, Writes
  <2> QED BY <1>m, <2>2, <1>u DEF OtherSets
<1>o. CASE Crash
  BY <1>o, <1>u DEF Crash, Dies
<1>p. CASE Tick
  BY <1>p, <1>u DEF Tick
<1>q. CASE UNCHANGED vars
  BY <1>q, <1>u DEF vars
<1> QED BY <1>a, <1>b, <1>s, <1>c, <1>d, <1>e, <1>f, <1>g, <1>h, <1>j, <1>l, <1>m, <1>o, <1>p, <1>q
        DEF Next, Gate, GateRefused, Asked, Serve, Drain, ColdStart, RunStarts, Finished

\* Whoever still waits for the run on record is backed by the watchdog, however
\* many older drains and looks of the watch end meanwhile.
THEOREM WatchIsKept == Spec => []WatchKept
<1>1. Init => WatchKept
  BY DEF Init, WatchKept
<1> QED BY <1>1, StampsCorrect, WatchStep, PTL DEF Spec

LEMMA VerdictStep ==
  ASSUME StampsInv, [Next]_vars, NEW d \in drains \ drains',
         record' # record, record'.state \in Outcomes
  PROVE  d.newest
<1>t. TypeOK
  BY DEF StampsInv
<1>a. ASSUME NEW cut \in Cuts, Arm(cut) PROVE FALSE
  BY <1>a DEF Arm
<1>b. ASSUME NEW upTo, ArmThrows(upTo) PROVE FALSE
  BY <1>b DEF ArmThrows
<1>s. ASSUME NEW cut \in Cuts, Start(cut) PROVE FALSE
  BY <1>s DEF Start
<1>e. CASE WatchServed
  BY <1>e DEF WatchServed, WatchAgain, WatchOver
<1>j. ASSUME NEW e \in drains, DrainChecks(e) PROVE FALSE
  BY <1>j DEF DrainChecks
<1>l. ASSUME NEW e \in drains, NEW outcome \in Outcomes, DrainEnds(e, outcome) PROVE d.newest
  <2>1. StillMine(e) /\ d = e
    BY <1>l DEF DrainEnds
  <2> QED BY <2>1, NewestIsOne
<1>z. CASE \/ AlarmFires \/ RunServed \/ HandlerEnds \/ HandlerFails \/ Crash \/ Tick
           \/ \E key \in Keys : OtherServed(key) \/ OtherSets(key)
           \/ UNCHANGED vars
  BY <1>z DEF AlarmFires, RunServed, HandlerEnds, HandlerFails, Crash, Tick, OtherServed, OtherSets, vars
<1> QED BY <1>a, <1>b, <1>s, <1>e, <1>j, <1>l, <1>z
        DEF Next, Gate, GateRefused, Asked, Serve, Drain, ColdStart, RunStarts, Finished

\* Of the drains that end, only the newest run's writes its verdict.
THEOREM VerdictsAreOfNewest == Spec => VerdictIsOfNewest
<1>1. StampsInv /\ [Next]_vars =>
        [\A d \in drains \ drains' :
           (record' # record /\ record'.state \in Outcomes) => d.newest]_vars
  BY VerdictStep
<1> QED BY <1>1, StampsCorrect, PTL DEF Spec, VerdictIsOfNewest

LEMMA LiveStep ==
  ASSUME StampsInv, [Next]_vars, NEW d \in drains, d.newest, [d EXCEPT !.newest = FALSE] \in drains'
  PROVE  now - d.stamp > JobTimeout + StaleMs
<1> DEFINE gone == [d EXCEPT !.newest = FALSE]
<1>t. TypeOK
  BY DEF StampsInv
<1>g. gone \notin drains /\ ~gone.newest /\ gone.stamp = d.stamp /\ gone.stamp = context
  <2>1. d \in Drains
    BY <1>t DEF TypeOK
  <2>2. ~gone.newest /\ gone.stamp = d.stamp
    BY <2>1
  <2>3. d.stamp = context
    BY DEF StampsInv, Stamps, NewestIsEntitled, StillMine
  <2> QED BY <2>2, <2>3 DEF StampsInv, Stamps, EntitledIsNewest
<1>d. record = Running(context) /\ armed # context /\ d.stamp = context
  BY DEF StampsInv, Stamps, NewestIsEntitled, StillMine
<1> HIDE DEF gone
<1>s. ASSUME NEW cut \in Cuts, Start(cut), NEW takeOver \in {armed, Unset}, Claim(record, takeOver)
      PROVE  now - d.stamp > JobTimeout + StaleMs
  <2>1. context # Unset
    <3>1. record \in Records
      BY <1>t DEF TypeOK
    <3>2. record.state = "running" /\ record.startedAt = context
      BY <1>d
    <3>3. record.startedAt \in Nat
      BY <3>1, <3>2
    <3> QED BY <3>2, <3>3
  <2>2. ~(record.state # "running" \/ record.startedAt = takeOver)
    BY <1>s, <1>d, <2>1
  <2> QED BY <1>s, <1>d, <2>2 DEF Claim, IsStale
<1>a. ASSUME NEW cut \in Cuts, Arm(cut) PROVE FALSE
  BY <1>a, <1>d DEF Arm, IsRearmable
<1>b. ASSUME NEW upTo, ArmThrows(upTo) PROVE FALSE
  BY <1>b, <1>d DEF ArmThrows, IsRearmable
<1>e. CASE WatchServed
  BY <1>e, <1>g DEF WatchServed, WatchAgain, WatchOver, gone
<1>j. ASSUME NEW e \in drains, DrainChecks(e) PROVE FALSE
  BY <1>j, <1>g, <1>t DEF DrainChecks, gone, StillMine, TypeOK
<1>l. ASSUME NEW e \in drains, NEW outcome \in Outcomes, DrainEnds(e, outcome) PROVE FALSE
  BY <1>l, <1>g DEF DrainEnds, gone
<1>z. CASE \/ AlarmFires \/ RunServed \/ HandlerEnds \/ HandlerFails \/ Crash \/ Tick
           \/ \E key \in Keys : OtherServed(key) \/ OtherSets(key)
           \/ UNCHANGED vars
  BY <1>z, <1>g DEF AlarmFires, RunServed, HandlerEnds, HandlerFails, Crash, Dies, Tick, OtherServed, OtherSets, vars, gone
<1> QED BY <1>a, <1>b, <1>s, <1>e, <1>j, <1>l, <1>z
        DEF Next, Gate, GateRefused, Asked, Serve, Drain, ColdStart, RunStarts, Finished

\* A run somebody drains is displaced only when its budget and grace are over.
THEOREM LiveRunIsKept == Spec => LiveRunKept
<1>1. StampsInv /\ [Next]_vars =>
        [\A d \in drains : (d.newest /\ [d EXCEPT !.newest = FALSE] \in drains')
            => now - d.stamp > JobTimeout + StaleMs]_vars
  BY LiveStep
<1> QED BY <1>1, StampsCorrect, PTL DEF Spec, LiveRunKept
=============================================================================
