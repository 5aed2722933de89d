------------------------------- MODULE MCFleet ------------------------------
(* A model-checking instance of Fleet: a fleet with an API key, and        *)
(* another client without one, which some configurations let in.           *)
EXTENDS Fleet, TLC

CONSTANTS fleet, stranger, hostF, hostS, keyF

MCKey == fleet :> keyF @@ stranger :> NoKey
MCHost == fleet :> hostF @@ stranger :> hostS
MCKeyLists == {{""}, {keyF, ""}}
=============================================================================
