------------------------------ MODULE WakeMap ------------------------------
(***************************************************************************)
(* Many deadlines over a Durable Object's one alarm: the class WakeMap of  *)
(* alarm/index.ts.  One storage row maps keys to deadlines; the alarm is   *)
(* pointed at the earliest of them.                                        *)
(*                                                                         *)
(* Each method is a chain of storage calls.  They hold the object's input  *)
(* gate, so no other event sees the chain half done, but the object may    *)
(* die after any of its writes, and a call may be refused.  The operators  *)
(* here say what each write leaves behind.                                 *)
(***************************************************************************)
EXTENDS Integers

CONSTANTS Keys,        \* the keys intents are stored under
          RepairDelay  \* WAKE_REPAIR_MS

ASSUME WakeMapAssumption == RepairDelay \in Nat

Unset == -1  \* no alarm, no deadline, no stamp

Times == Nat \cup {Unset}

VARIABLES intents,  \* the row: the deadline of each key, Unset where none is pending
          alarm     \* the object's one alarm

wakeVars == <<intents, alarm>>

\* all(): a key that was never stored is absent, whatever its name.
Pending(map) == {k \in Keys : map[k] # Unset}

Due(map, now) == {k \in Pending(map) : map[k] <= now}

Earliest(map) == CHOOSE t \in {map[k] : k \in Pending(map)} :
                    \A k \in Pending(map) : t <= map[k]

RearmedOnce(map, set) == IF Pending(map) = {} \/ set # Unset THEN set ELSE Earliest(map) \* Regression

\* rearm(): only ever moved earlier; deleted with the last intent.
Rearmed(map, set) == IF Pending(map) = {}
                     THEN Unset
                     ELSE IF set = Unset \/ set > Earliest(map)
                          THEN Earliest(map)
                          ELSE set

Repaired(set, now) == IF set = Unset THEN now + RepairDelay ELSE set

With(map, key, time) == [map EXCEPT ![key] = time]

Without(map, key) == [map EXCEPT ![key] = Unset]

\* set() and clear() up to a write: none, the row, the row and the alarm.
Writes == {"none", "row", "all"}

Stores(map, upTo) ==
  /\ intents' = IF upTo = "none" THEN intents ELSE map
  /\ alarm' = IF upTo = "all" THEN Rearmed(map, alarm) ELSE alarm

SetIntent(key, time, upTo) == Stores(With(intents, key, time), upTo)

\* A key that is not held is left alone: neither the row nor the alarm is touched.
ClearIntent(key, upTo) ==
  IF intents[key] = Unset
  THEN UNCHANGED wakeVars
  ELSE Stores(Without(intents, key), upTo)

\* Someone comes for every pending intent, and no later than its deadline.
Covered == \A k \in Pending(intents) : alarm # Unset /\ alarm <= intents[k]
=============================================================================
