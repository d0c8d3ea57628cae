--------------------------- MODULE AtomicInstall ----------------------------
(***************************************************************************)
(* What TemplateInstallStore (template-install-store.ts) promises, without *)
(* callers and requests: a template replaces an untouched site in one      *)
(* step, at most once, exactly where an administrator reviewed it, and     *)
(* what the owner made is never lost.                                      *)
(***************************************************************************)
CONSTANTS Sites, Untouched(_), Edited(_), EditedWhileLocked(_), Template

VARIABLES
  site,
  phase,   \* "none", "applying" or "installed"
  seen     \* reviewed sites; the one that was claimed once there is a claim

vars == <<site, phase, seen>>

Init == site \in Sites /\ Untouched(site) /\ phase = "none" /\ seen = {}

\* The owner edits; pages and configuration rest while the claim is applying.
Edit == /\ site' \in IF phase = "applying" THEN EditedWhileLocked(site) ELSE Edited(site)
        /\ UNCHANGED <<phase, seen>>

Review == /\ phase = "none" /\ Untouched(site)
          /\ seen' = seen \cup {site}
          /\ UNCHANGED <<site, phase>>

Claim == /\ phase = "none" /\ phase' = "applying"
         /\ \E s \in seen : seen' = {s}
         /\ UNCHANGED site

Install == /\ phase = "applying" /\ phase' = "installed"
           /\ seen = {site}
           /\ site' = Template
           /\ UNCHANGED seen

Next == Edit \/ Review \/ Claim \/ Install

Spec == Init /\ [][Next]_vars
=============================================================================
