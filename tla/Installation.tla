---------------------------- MODULE Installation ----------------------------
(***************************************************************************)
(* What create_cv_upgrade promises to those who only look at the result:   *)
(* a set of installed upgrades that grows, one active upgrade and one      *)
(* genesis upgrade.  Activating an upgrade is one step here, and only an   *)
(* installed one is activated; a request that fails changes neither.       *)
(* CvLayout, where all of this takes many writes, implements Spec; a       *)
(* container, where cosmovisor too installs what an upgrade of the chain   *)
(* asks for, implements HostedSpec.                                        *)
(***************************************************************************)
CONSTANTS
    Names,      \* the upgrades
    Provided,   \* those that an image holds
    InImage,    \* the genesis upgrade of the image
    Nil

VARIABLES
    installed,  \* the upgrades that have a binary
    active,     \* the upgrade that would run, Nil: none
    base,       \* the upgrade the chain starts with, Nil: none
    want,       \* the last request: an upgrade, and whether to activate it
    status      \* "busy", or how the last request ended

vars == <<installed, active, base, want, status>>

Init ==
    /\ installed = {}
    /\ active = Nil
    /\ base = Nil
    /\ want = Nil
    /\ status = "none"

Request ==
    /\ status # "busy"
    /\ want' \in [name : Names, link : BOOLEAN]
    /\ status' = "busy"
    /\ UNCHANGED <<installed, active, base>>

Add ==
    /\ status = "busy"
    /\ installed' = installed \union {want.name}
    /\ UNCHANGED <<active, base, want, status>>

\* The new version replaces the old one without a moment between them.
Activate ==
    /\ status = "busy"
    /\ want.link /\ want.name \in installed
    /\ active' = want.name
    /\ UNCHANGED <<installed, base, want, status>>

\* A base that is there is kept.
Succeed ==
    /\ status = "busy"
    /\ want.name \in installed
    /\ want.link => active = want.name
    /\ base' = IF base = Nil THEN want.name ELSE base
    /\ status' = "ok"
    /\ UNCHANGED <<installed, active, want>>

Fail ==
    /\ status = "busy"
    /\ status' = "raised"
    /\ UNCHANGED <<installed, active, base, want>>

\* A kill, and only of a request to activate, can cost the active upgrade.
BreakOff ==
    /\ status = "busy"
    /\ status' = "crashed"
    /\ \/ active' = active
       \/ (want.link /\ active' = Nil)
    /\ UNCHANGED <<installed, base, want>>

\* The image's upgrades are added, its genesis upgrade becomes the base.
CopyImage ==
    /\ status # "busy"
    /\ \E copied \in SUBSET Provided : installed' = installed \union copied
    /\ base' \in {base, InImage}
    /\ UNCHANGED <<active, want, status>>

\* A base that lies in the image comes and goes with it.
Remount ==
    /\ status # "busy"
    /\ {base, base'} \subseteq {InImage, Nil}
    /\ UNCHANGED <<installed, active, want, status>>

Next ==
    \/ Request \/ Add \/ Activate \/ Succeed \/ Fail \/ BreakOff
    \/ CopyImage \/ Remount

Spec == Init /\ [][Next]_vars

\* cosmovisor installs and activates an upgrade by itself, never beside a
\* request.
Swap ==
    /\ status # "busy"
    /\ active' \in Names
    /\ installed' = installed \union {active'}
    /\ UNCHANGED <<base, want, status>>

HostedNext == Next \/ Swap

HostedSpec == Init /\ [][HostedNext]_vars

=============================================================================
