---------------------------- MODULE MapContract ----------------------------
(***************************************************************************)
(* What MapType (maps/MapTypes.hpp) and SlimMap.java promise threads that  *)
(* share a map: a call takes effect in one step between its start and its  *)
(* return, and what it answers depends on the value under its key at that  *)
(* instant.  The classes differ in put() on a key that is there and in     *)
(* what they answer; in Java none serves a key with a negative hash code:  *)
(* the call throws.                                                        *)
(***************************************************************************)
CONSTANTS
  Threads, Keys, Values, NoValue

VARIABLES
  overwrites,   \* put() replaces the value of a key that is there
  refused,      \* the keys whose calls throw
  reports,      \* reports[op]: what the answer to op tells, one of Reports
  map,          \* map[k]: the value under k, or NoValue
  call          \* call[t]: the call t is in, or NoCall

vars == <<overwrites, refused, reports, map, call>>

Ops == {"put", "get", "del"}

(* The value found under the key, whether there was none, whether there    *)
(* was one, or nothing: a constant "true" or Java's null.                  *)
Reports == {"value", "was absent", "was there", "true", "null"}

Bool(b) == IF b THEN "true" ELSE "false"

Reply(report, found) ==
  CASE report = "value"      -> found
    [] report = "was absent" -> Bool(found = NoValue)
    [] report = "was there"  -> Bool(found # NoValue)
    [] report = "true"       -> "true"
    [] report = "null"       -> NoValue

NoCall == [op |-> "none"]

Start(t, op, k, v) ==
  /\ call[t] = NoCall
  /\ op = "put" <=> v \in Values
  /\ call' = [call EXCEPT ![t] = [op |-> op, key |-> k, value |-> v, answer |-> "pending"]]
  /\ UNCHANGED <<overwrites, refused, reports, map>>

Pending(t) == call[t] # NoCall /\ call[t].answer = "pending"

Effect(c) ==
  CASE c.op = "put" /\ (overwrites \/ map[c.key] = NoValue) -> [map EXCEPT ![c.key] = c.value]
    [] c.op = "del" -> [map EXCEPT ![c.key] = NoValue]
    [] OTHER        -> map

(* What the call does and what it answers follow from the value under the  *)
(* key at one instant.                                                     *)
TakeEffect(t) ==
  /\ Pending(t)
  /\ LET c == call[t]
     IN  \/ /\ c.key \notin refused
            /\ call' = [call EXCEPT ![t].answer = Reply(reports[c.op], map[c.key])]
            /\ map' = Effect(c)
         \/ /\ c.key \in refused
            /\ call' = [call EXCEPT ![t].answer = "exception"]
            /\ UNCHANGED map
  /\ UNCHANGED <<overwrites, refused, reports>>

Return(t) ==
  /\ call[t] # NoCall /\ call[t].answer # "pending"
  /\ call' = [call EXCEPT ![t] = NoCall]
  /\ UNCHANGED <<overwrites, refused, reports, map>>

Init ==
  /\ overwrites \in BOOLEAN
  /\ refused \subseteq Keys
  /\ reports \in [Ops -> Reports]
  /\ map = [k \in Keys |-> NoValue]
  /\ call = [t \in Threads |-> NoCall]

Next ==
  \E t \in Threads :
    \/ \E op \in Ops, k \in Keys, v \in Values \cup {NoValue} : Start(t, op, k, v)
    \/ TakeEffect(t)
    \/ Return(t)

Spec == Init /\ [][Next]_vars

LiveSpec ==
  /\ Spec
  /\ WF_vars(\E t \in Threads : TakeEffect(t))
  /\ \A t \in Threads : WF_vars(Return(t))
=============================================================================
