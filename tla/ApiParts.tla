------------------------------ MODULE ApiParts ------------------------------
(***************************************************************************)
(* Four parts of the api process that share no row and no key: sessions,   *)
(* API keys, the rate limits and the history of checks and incidents.      *)
(* Steps of two of them commute, so a behaviour is about one.              *)
(***************************************************************************)
EXTENDS Sessions, ApiKeys, Limits, History

VARIABLE part

vars == <<part, accountVars, tokenVars, keyVars, limitVars, histVars>>

Init ==
  /\ part \in {"sessions", "keys", "limits", "results", "incidents", "desk"}
  /\ SessionsInit /\ KeysInit /\ LimitsInit /\ HistoryInit
  /\ part # "limits" => traffic = "check"

Next ==
  \/ /\ part = "sessions" /\ PeopleNext
     /\ UNCHANGED <<part, keyVars, limitVars, histVars>>
  \/ /\ part = "keys" /\ KeyNext
     /\ UNCHANGED <<part, accountVars, tokenVars, limitVars, histVars>>
  \/ /\ part = "limits" /\ LimitsNext
     /\ UNCHANGED <<part, accountVars, tokenVars, keyVars, histVars>>
  \/ /\ \/ part = "results" /\ ResultsNext
        \/ part = "incidents" /\ IncidentsNext
        \/ part = "desk" /\ DeskNext
     /\ UNCHANGED <<part, accountVars, tokenVars, keyVars, limitVars>>

Spec == Init /\ [][Next]_vars /\ KeysFair /\ LimitsFair
=============================================================================
