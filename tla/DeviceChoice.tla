---------------------------- MODULE DeviceChoice ----------------------------
(***************************************************************************)
(* Which microphone Capturer.Start opens: orderPreference and the locals   *)
(* of the loop that tries one microphone after the other, internal/audio/  *)
(* capture.go.  They belong to the one Start that holds Capturer.mu;       *)
(* Capturer composes them with the capture.                                *)
(*                                                                         *)
(* Microphones are their indices in the enumeration.  A name is reduced to *)
(* whether it matches the configured microphone; MatchesDevice says no     *)
(* for an empty one.                                                       *)
(***************************************************************************)
EXTENDS Naturals, Sequences

CONSTANT MaxMics   \* bound: microphones enumerated

VARIABLES
  count,      \* how many microphones there are
  matches,    \* indices whose name matches the preference
  default,    \* indices the OS flags as default
  tried       \* how many of the order could not be opened

choiceVars == <<count, matches, default, tried>>

Indices == 1 .. count

(* pick: the microphones of a set that are not taken, in the order of the  *)
(* enumeration.                                                            *)
Pick(S, taken) ==
  LET order[i \in 0 .. count] ==
        IF i = 0 THEN <<>>
        ELSE IF i \in S \ taken THEN Append(order[i - 1], i) ELSE order[i - 1]
  IN  order[count]

OrderPreference_DefaultFirst ==
  Pick(default, {}) \o Pick(matches, default) \o Pick(Indices, matches \cup default)
OrderPreference ==
  Pick(matches, {}) \o Pick(default, matches) \o Pick(Indices, matches \cup default)

NoChoice == count = 0 /\ matches = {} /\ default = {} /\ tried = 0
Forget   == count' = 0 /\ matches' = {} /\ default' = {} /\ tried' = 0

(* The backend's answer; with an error or no microphone Start returns.     *)
Enumerate ==
  /\ count'   \in 1 .. MaxMics
  /\ matches' \in SUBSET (1 .. count')
  /\ default' \in SUBSET (1 .. count')
  /\ tried' = 0

Left    == tried < Len(OrderPreference)
Current == OrderPreference[tried + 1]
Failed  == {OrderPreference[i] : i \in 1 .. tried}

TryNext == tried' = tried + 1 /\ UNCHANGED <<count, matches, default>>
-----------------------------------------------------------------------------
ChoiceTypeOK ==
  /\ count \in 0 .. MaxMics
  /\ matches \subseteq Indices /\ default \subseteq Indices
  /\ tried \in 0 .. count

(* i is a better choice than j: the configured name, then the default,     *)
(* then the order of enumeration.                                          *)
Better(i, j) ==
  LET Rank(x) == IF x \in matches THEN 0 ELSE IF x \in default THEN 1 ELSE 2
  IN  Rank(i) < Rank(j) \/ (Rank(i) = Rank(j) /\ i < j)
=============================================================================
