--------------------------- MODULE BlueprintReads ---------------------------
(***************************************************************************)
(* What the graph cache promises the tool handlers, with no cache in it:   *)
(* a read of a blueprint either raises or answers with one version of the  *)
(* blueprint that was current at some moment between the call and the      *)
(* answer, and the answers for one blueprint never go back in time.        *)
(* GraphRegistry implements this specification.                            *)
(***************************************************************************)
EXTENDS Integers

CONSTANTS Keys,        \* (instance, blueprint) pairs
          Callers,     \* concurrent tool calls
          MaxVersion,  \* bound on the edits of one blueprint
          NoKey        \* "this caller is not inside a call"

VARIABLES
  live,    \* live[k]: version of blueprint k on the Apstra server, 0 before it exists
  key,     \* key[c]: blueprint that c is reading, or NoKey
  floor,   \* floor[c]: version of that blueprint when c made the call it is in, else 0
  got,     \* got[c]: version that c's last call answered with, 0 if it raised
  served   \* served[k]: newest version any call answered with

vars == <<live, key, floor, got, served>>

Init ==
  /\ live \in [Keys -> {0, 1}]
  /\ key = [c \in Callers |-> NoKey]
  /\ floor = [c \in Callers |-> 0]
  /\ got = [c \in Callers |-> 0]
  /\ served = [k \in Keys |-> 0]

Edit(k) ==
  /\ live[k] < MaxVersion
  /\ live' = [live EXCEPT ![k] = @ + 1]
  /\ UNCHANGED <<key, floor, got, served>>

Begin(c, k) ==
  /\ key[c] = NoKey
  /\ key' = [key EXCEPT ![c] = k]
  /\ floor' = [floor EXCEPT ![c] = live[k]]
  /\ UNCHANGED <<live, got, served>>

End(c) ==
  /\ key' = [key EXCEPT ![c] = NoKey]
  /\ floor' = [floor EXCEPT ![c] = 0]

\* The answer v is no older than the blueprint was when the call began, no
\* older than any earlier answer, and no newer than the blueprint is now.
Answer(c) ==
  /\ key[c] # NoKey
  /\ \E v \in 1..live[key[c]] :
       /\ v >= floor[c]
       /\ v >= served[key[c]]
       /\ got' = [got EXCEPT ![c] = v]
       /\ served' = [served EXCEPT ![key[c]] = v]
  /\ End(c)
  /\ UNCHANGED live

Raise(c) ==
  /\ key[c] # NoKey
  /\ got' = [got EXCEPT ![c] = 0]
  /\ End(c)
  /\ UNCHANGED <<live, served>>

Next ==
  \/ \E k \in Keys : Edit(k)
  \/ \E c \in Callers, k \in Keys : Begin(c, k)
  \/ \E c \in Callers : Answer(c) \/ Raise(c)

Spec == Init /\ [][Next]_vars
=============================================================================
