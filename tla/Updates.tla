-------------------------------- MODULE Updates --------------------------------
(***************************************************************************)
(* The in-app update of the GUI: gui/src/update.rs.  A thread looks for a    *)
(* release, another downloads and installs it; each leaves one message that  *)
(* a later frame takes in.  Versions are numbers.  What is checked of the     *)
(* manifests and of the package either holds or makes the thread fail.        *)
(***************************************************************************)
EXTENDS Integers, FiniteSets

CONSTANTS
  Releases,      \* what may be published: [version, final, package]
  FirstVersion,  \* the version installed at first
  MaxLaunches    \* bound on the launches of the GUI

ASSUME UpdatesAssumption ==
  /\ \A r \in Releases : r.version \in Nat /\ {r.final, r.package} \subseteq BOOLEAN
  /\ FirstVersion \in Nat /\ MaxLaunches \in Nat

VARIABLES
  kind,       \* InstallKind
  installed,  \* the version on the disk
  current,    \* the version that runs
  published,  \* the releases on GitHub
  skipped,    \* the version saved by Skip this version, 0 for none
  phase,      \* the phase of the update, with the release it is about
  manual,     \* whether the user asked for the check
  prompted,   \* whether the startup check has opened the window
  window,     \* window_open
  receiver,   \* the thread a message is expected from, and its message
  onExit,     \* the version to install when the GUI exits, 0 for none
  app,        \* "open", "closing" or "closed"
  launches,   \* launches so far
  agreed      \* the versions the user chose to install, for the properties only

updateVars == <<kind, installed, current, published, skipped, phase, manual, prompted,
                window, receiver, onExit, app, launches, agreed>>

\* What decides how an installation can be updated: whether it came from a package
\* for it, whether it may be replaced where it is, and on macOS also whether the
\* fallback can quote its path.
Installations ==
  [os : {"mac", "windows", "linux", "other"}, packaged : BOOLEAN, replaceable : BOOLEAN,
   quotable : BOOLEAN]

\* detect_from.
KindOf(i) ==
  CASE i.os = "mac" /\ i.packaged /\ i.replaceable /\ i.quotable -> "in_place"
    [] i.os = "linux" /\ i.packaged /\ i.replaceable               -> "in_place"
    [] i.os = "windows" /\ i.packaged                              -> "on_exit"
    [] OTHER                                                       -> "notify_only"

-------------------------------------------------------------------------------
(* Threads.                                                                  *)

\* A phase and the release it is about.
Plain(name) == [name |-> name, version |-> 0, installable |-> FALSE]

NoThread == [job |-> "none", message |-> <<>>]

Thread(job) == [job |-> job, message |-> <<>>]

\* Mutant: a release as old as the one that runs is an update.
Candidates_SameToo == {r \in published : r.final /\ r.version >= current}

\* newest_release: gui_tag_version and the two flags of a release.
Candidates == {r \in published : r.final /\ r.version > current}

\* check: a release without an update manifest, or for an installation that cannot
\* update itself, is only shown.
Offered(r) ==
  [name |-> "available", version |-> r.version,
   installable |-> r.package /\ kind # "notify_only"]

CheckResults ==
  {Plain("failed")}
  \cup IF Candidates = {} THEN {Plain("up_to_date")}
       ELSE {Offered(r) : r \in {c \in Candidates : \A o \in Candidates : o.version <= c.version}}

AnswerCheck ==
  /\ receiver.job = "check" /\ receiver.message = <<>>
  /\ \E result \in CheckResults : receiver' = [receiver EXCEPT !.message = <<result>>]
  /\ UNCHANGED <<kind, installed, current, published, skipped, phase, manual, prompted, window,
                 onExit, app, launches, agreed>>

\* download_verified, and the installation unless the GUI has to exit first.
AnswerInstall ==
  /\ receiver.job = "install" /\ receiver.message = <<>>
  /\ \/ /\ receiver' = [receiver EXCEPT !.message = <<Plain("failed")>>]
        /\ UNCHANGED installed
     \/ /\ kind = "in_place"
        /\ receiver' = [receiver EXCEPT !.message = <<Plain("installed")>>]
        /\ installed' = phase.version
     \/ /\ kind = "on_exit"
        /\ receiver' = [receiver EXCEPT !.message = <<Plain("downloaded")>>]
        /\ UNCHANGED installed
  /\ UNCHANGED <<kind, current, published, skipped, phase, manual, prompted, window, onExit, app,
                 launches, agreed>>

Publish ==
  /\ \E r \in Releases \ published : published' = published \cup {r}
  /\ UNCHANGED <<kind, installed, current, skipped, phase, manual, prompted, window, receiver,
                 onExit, app, launches, agreed>>

-------------------------------------------------------------------------------
(* Updates.                                                                  *)

\* check: joins the check in progress.
Check(byUser) ==
  /\ window' = (window \/ byUser)
  /\ IF receiver.job # "none" THEN manual' = (manual \/ byUser) /\ UNCHANGED <<phase, receiver>>
     ELSE manual' = byUser /\ phase' = Plain("checking") /\ receiver' = Thread("check")

\* poll: a message that does not fit the phase is dropped.
PollUpdates ==
  IF receiver.message = <<>> THEN
    UNCHANGED <<phase, prompted, window, receiver, onExit, app>>
  ELSE LET message == receiver.message[1]
           prompts == /\ receiver.job = "check" /\ message.name = "available"
                      /\ ~manual /\ ~prompted /\ message.version # skipped
           taken   == message.name = "downloaded" /\ phase.name = "installing"
       IN
    /\ receiver' = NoThread
    /\ prompted' = (prompted \/ prompts)
    /\ window' = (window \/ prompts \/ (receiver.job = "install" /\ message.name = "failed"))
    /\ onExit' = IF taken THEN phase.version ELSE onExit
    /\ app' = IF taken THEN "closing" ELSE app
    /\ phase' = IF receiver.job = "check" \/ message.name = "failed" THEN message
                ELSE IF phase.name = "installing" /\ message.name = "installed"
                  THEN [phase EXCEPT !.name = "installed"]
                ELSE phase

\* install.
Install ==
  /\ agreed' = agreed \cup {phase.version}
  /\ phase' = [phase EXCEPT !.name = "installing"]
  /\ receiver' = Thread("install")

\* open: the rail's button and About's.
OpenUpdates ==
  IF phase.name \in {"available", "installing", "installed"}
    THEN window' = TRUE /\ UNCHANGED <<phase, manual, receiver>>
    ELSE Check(TRUE)

ClickUpdates ==
  /\ OpenUpdates
  /\ UNCHANGED <<kind, installed, current, published, skipped, prompted, onExit, app, launches,
                 agreed>>

\* window_contents and window: what the user can do in the window.
TryAgain ==
  /\ window /\ phase.name \in {"idle", "failed"}
  /\ Check(TRUE)
  /\ UNCHANGED <<kind, installed, current, published, skipped, prompted, onExit, app, launches,
                 agreed>>

ClickInstall(analysisRuns) ==
  /\ window /\ phase.name = "available" /\ phase.installable
  /\ ~analysisRuns
  /\ Install
  /\ UNCHANGED <<kind, installed, current, published, skipped, manual, prompted, window, onExit,
                 app, launches>>

Skip ==
  /\ window /\ phase.name = "available"
  /\ skipped' = phase.version
  /\ window' = FALSE
  /\ UNCHANGED <<kind, installed, current, published, phase, manual, prompted, receiver, onExit,
                 app, launches, agreed>>

CloseWindow ==
  /\ window
  /\ window' = FALSE
  /\ UNCHANGED <<kind, installed, current, published, skipped, phase, manual, prompted, receiver,
                 onExit, app, launches, agreed>>

\* restart: the new version is started, and this one closes.
Restart ==
  /\ window /\ phase.name = "installed"
  /\ \/ app' = "closing" /\ UNCHANGED phase
     \/ phase' = Plain("failed") /\ UNCHANGED app
  /\ UNCHANGED <<kind, installed, current, published, skipped, manual, prompted, window, receiver,
                 onExit, launches, agreed>>

-------------------------------------------------------------------------------
(* The life of the GUI.                                                      *)

CloseApp ==
  /\ app' = "closing"
  /\ UNCHANGED <<kind, installed, current, published, skipped, phase, manual, prompted, window,
                 receiver, onExit, launches, agreed>>

\* save, then on_exit; the threads end with the program.
Exit ==
  /\ app = "closing"
  /\ app' = "closed"
  /\ installed' \in IF onExit = 0 THEN {installed} ELSE {installed, onExit}
  /\ receiver' = NoThread
  /\ UNCHANGED <<kind, current, published, skipped, phase, manual, prompted, window, onExit,
                 launches, agreed>>

\* A new GUI with the saved settings; the startup check is a setting.
Launch ==
  /\ app = "closed" /\ launches < MaxLaunches
  /\ launches' = launches + 1
  /\ app' = "open" /\ current' = installed
  /\ \E checks \in BOOLEAN :
       /\ phase' = Plain(IF checks THEN "checking" ELSE "idle")
       /\ receiver' = IF checks THEN Thread("check") ELSE NoThread
  /\ manual' = FALSE /\ prompted' = FALSE /\ window' = FALSE
  /\ onExit' = 0 /\ agreed' = {}
  /\ UNCHANGED <<kind, installed, published, skipped>>

UpdatesInit ==
  /\ kind \in {KindOf(i) : i \in Installations}
  /\ installed = FirstVersion /\ current = FirstVersion
  /\ published \in SUBSET Releases
  /\ skipped = 0
  /\ phase = Plain("idle") /\ receiver = NoThread
  /\ manual = FALSE /\ prompted = FALSE /\ window = FALSE
  /\ onExit = 0
  /\ app = "closed" /\ launches = 0
  /\ agreed = {}

-------------------------------------------------------------------------------
(* Properties.                                                               *)

\* A thread is at work, or its message waits, exactly while the window says so.
ThreadOfPhase ==
  /\ app = "open" => (receiver.job = "check" <=> phase.name = "checking")
  /\ receiver.job = "install" => phase.name = "installing"
  /\ app = "open" /\ phase.name = "installing" => receiver.job = "install"

\* Only a newer release is offered, and only the one the user agreed to is
\* installed; the window says so only when it is.
InstalledAsAgreed ==
  /\ phase.version # 0 => phase.version > current
  /\ installed \in agreed \cup {current}
  /\ phase.name = "installed" => installed = phase.version
  /\ onExit \in agreed \cup {0}

\* What the user is told of an update is what happens, whichever threads are at work
\* when the window is opened, closed or used.
UpdatesInOrder == ThreadOfPhase /\ InstalledAsAgreed

\* Every check that is begun, at startup or by the user, comes to a result.
ChecksEnd == [](phase.name = "checking" => <>(phase.name # "checking" \/ app # "open"))
===============================================================================
