------------------------------ MODULE Settings ------------------------------
(***************************************************************************)
(* The settings of one user (rest/stubs.go, storage/settings.go).  A PATCH *)
(* is merged into the stored object, its status goes to IRC, its fields go *)
(* to every session, and the client gets the stored object back.  PATCHes  *)
(* overlap; Badger refuses the merge of one that read what another has     *)
(* replaced since ("stale"), which the handler only logs.                  *)
(***************************************************************************)
EXTENDS Naturals, FiniteSets

CONSTANTS
  Patchers,        \* concurrent PATCH requests
  Fields,          \* top-level keys, "status" among them
  Values,          \* values; 0 is the default of every key
  MaxPatches       \* bound: requests served

ASSUME SettingsAssumption == "status" \in Fields /\ 0 \in Values

VARIABLES
  settings,        \* the stored object
  rendered,        \* what the sessions show
  relayed,         \* the status IRC was told last
  patching,        \* the requests
  patches,
  tangled          \* history: keys two overlapping requests set, or lost by a refused merge

settingVars == <<settings, rendered, relayed, patching, patches, tangled>>

Unused == [at |-> "none", patch |-> [f \in {} |-> 0], read |-> [f \in {} |-> 0], stale |-> FALSE]

SettingsInit ==
  /\ settings = [f \in Fields |-> 0] /\ rendered = settings
  /\ relayed = 0 /\ patching = [p \in Patchers |-> Unused]
  /\ patches = 0 /\ tangled = {}

Overlay(new, old) == [f \in Fields |-> IF f \in DOMAIN new THEN new[f] ELSE old[f]]
Proceed(p, at) == patching' = [patching EXCEPT ![p].at = at]

\* handleSettingsPatch: the body is decoded, MergeUserSettings reads.
handleSettingsPatch(p, patch) ==
  /\ patching[p] = Unused /\ patches < MaxPatches
  /\ patches' = patches + 1
  /\ patching' = [patching EXCEPT ![p] =
       [at |-> "merge", patch |-> patch, read |-> settings, stale |-> FALSE]]
  /\ tangled' = tangled \cup
       (DOMAIN patch \cap UNION {DOMAIN patching[q].patch : q \in Patchers})
  /\ UNCHANGED <<settings, rendered, relayed>>

Merged(p, object) ==
  /\ settings' = object
  /\ patching' = [q \in Patchers |->
       IF q = p THEN [patching[q] EXCEPT !.at = "status"]
       ELSE [patching[q] EXCEPT !.stale = @ \/ patching[q].at = "merge"]]
  /\ UNCHANGED tangled

\* Mutant: written without regard to what others committed meanwhile.
MergeUserSettingsBlind(p) ==
  /\ patching[p].at = "merge"
  /\ Merged(p, Overlay(patching[p].patch, patching[p].read))
  /\ UNCHANGED <<rendered, relayed, patches>>

MergeUserSettings(p) ==
  /\ patching[p].at = "merge"
  /\ IF patching[p].stale
     THEN /\ Proceed(p, "status") /\ UNCHANGED settings
          /\ tangled' = tangled \cup DOMAIN patching[p].patch
     ELSE Merged(p, Overlay(patching[p].patch, patching[p].read))
  /\ UNCHANGED <<rendered, relayed, patches>>

\* SetStatus, if the body has a status.
RelayStatus(p) ==
  /\ patching[p].at = "status" /\ Proceed(p, "tell")
  /\ relayed' = IF "status" \in DOMAIN patching[p].patch THEN patching[p].patch["status"]
                ELSE relayed
  /\ UNCHANGED <<settings, rendered, patches, tangled>>

\* USER_SETTINGS_UPDATE with the fields of the body, then the answer.
TellSettings(p) ==
  /\ patching[p].at = "tell"
  /\ rendered' = Overlay(patching[p].patch, rendered)
  /\ patching' = [patching EXCEPT ![p] = Unused]
  /\ UNCHANGED <<settings, relayed, patches, tangled>>

\* A session starts anew and gets the stored object with READY, a connection
\* comes up and takes the stored status.
Reload ==
  /\ \A p \in Patchers : patching[p] = Unused
  /\ rendered' = settings /\ relayed' = settings["status"]
  /\ tangled' = {}
  /\ UNCHANGED <<settings, patching, patches>>

Patches == UNION {[fs -> Values] : fs \in SUBSET Fields \ {{}}}

SettingsNext ==
  \/ \E p \in Patchers :
       \/ \E patch \in Patches : handleSettingsPatch(p, patch)
       \/ MergeUserSettings(p) \/ RelayStatus(p) \/ TellSettings(p)
  \/ Reload

SettingsSpec == SettingsInit /\ [][SettingsNext]_settingVars

----------------------------------------------------------------------------
(* Properties.                                                             *)

\* Requests that set different keys do not disturb each other: once no request
\* on a key is under way, the sessions show, and IRC was told, what is stored
\* under it, unless two requests on it overlapped or its merge was refused.
SettingsAgree ==
  \A f \in Fields \ tangled :
    (\A p \in Patchers : f \notin DOMAIN patching[p].patch) =>
      /\ rendered[f] = settings[f]
      /\ f = "status" => relayed = settings[f]

=============================================================================
