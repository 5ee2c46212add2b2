------------------------------ MODULE MCAccess ------------------------------
(***************************************************************************)
(* How a client gets in, on small instances: the web client's files        *)
(* (Mirror), its account and token (Accounts), its settings (Settings), its *)
(* gateway connection and session (Gateway).  They share no state, so a    *)
(* behaviour moves only the one that "focus" names.                        *)
(***************************************************************************)
EXTENDS Gateway, Accounts, Settings, Mirror, TLC

VARIABLE focus

Symmetry == Permutations(Conn) \cup Permutations(User)

MCInit ==
  /\ Init /\ AccountsInit /\ SettingsInit /\ MirrorInit
  /\ focus \in {"gateway", "accounts", "settings", "mirror"}
  /\ focus # "mirror" => hasPage = {} /\ \A b \in DOMAIN holds : holds[b] = {}

\* What all parts but the one named leave alone.
Others(part) ==
  /\ focus = part
  /\ part # "gateway" => UNCHANGED vars
  /\ part # "accounts" => UNCHANGED accountVars
  /\ part # "settings" => UNCHANGED settingVars
  /\ part # "mirror" => UNCHANGED mirrorVars
  /\ UNCHANGED focus

MCNext ==
  \/ Others("gateway") /\ Next
  \/ Others("accounts") /\ AccountsNext
  \/ Others("settings") /\ SettingsNext
  \/ Others("mirror") /\ MirrorNext

MCSpec == MCInit /\ [][MCNext]_<<vars, accountVars, settingVars, mirrorVars, focus>>
=============================================================================
