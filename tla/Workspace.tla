------------------------------ MODULE Workspace ------------------------------
(***************************************************************************)
(* The views of the web client that work on one device in each tab, over   *)
(* the connections and the task list they share.  All of them stay alive   *)
(* while another one is shown: their requests and transfers go on.         *)
(***************************************************************************)
EXTENDS FileManager, AppManager, Terminals

CONSTANT Tours  \* bound: sets of views; the user visits those of one of them

VARIABLE tour   \* the views that the user visits

vars == <<tour, poolVars, ops, shown, moves, files, apps, terms>>

\* The views restore tabs alike, and none or two: a bound.
Init ==
  /\ account \in Accounts
  /\ pool = InitPool /\ ops = {} /\ shown = "home" /\ moves = 0
  /\ tour \in Tours
  /\ \E T \in RestoredTabs(Dev) :
       Len(T.order) # 1 /\ InitFiles(T) /\ InitApps(T) /\ InitTerms(T)

\* The user goes to a view, from another one or from the device page with a device to open.
Show ==
  \E v \in {"files", "apps", "terminal", "tasks"}, d \in Dev \cup {NoDevice} :
    /\ Move /\ v \in tour \cup {"tasks"} /\ v # shown
    /\ (v = "tasks" => d = NoDevice) /\ (d # NoDevice => shown = "home")
    /\ shown' = v
    /\ IF v = "files" THEN FilesShown(d) ELSE UNCHANGED files
    /\ IF v = "apps" THEN AppsShown(d) ELSE UNCHANGED apps
    /\ CASE v = "terminal"     -> TermsShown(d)
         [] shown = "terminal" -> TermsHidden
         [] OTHER              -> UNCHANGED <<terms, pool, ops>>
    /\ UNCHANGED account

\* The user goes back to the device page.
ShowHome ==
  /\ shown # "home" /\ shown' = "home"
  /\ IF shown = "terminal" THEN TermsHidden ELSE UNCHANGED <<terms, pool, ops>>
  /\ UNCHANGED <<account, files, apps, moves>>

\* A transfer ends with one of these statuses.
Ends(S) ==
  \/ (DownloadEnds(S) \/ UploadEnds(S)) /\ UNCHANGED <<apps, terms>>
  \/ (InstallEnds(S) \/ DownloadAppEnds(S)) /\ UNCHANGED <<files, terms>>

\* What the end of a wait resumes, before the next event.
Resume ==
  \/ Resumes /\ UNCHANGED <<account, shown, moves, files, apps, terms>>
  \/ TerminalResumes /\ UNCHANGED <<files, apps>>
  \/ Ends({"cancelled"})

Events ==
  \/ (ConnectionSteps \/ OperationSteps) /\ UNCHANGED <<files, apps, terms>>
  \/ (AccountChanges \/ ConnectionMoves \/ RequestCancel \/ RemoveTask) /\ UNCHANGED <<files, apps, terms>>
  \/ (ListSteps \/ FilesActs \/ FileWorked) /\ UNCHANGED <<apps, terms>>
  \/ (AppsListSteps \/ AppsActs \/ AppsWorked) /\ UNCHANGED <<files, terms>>
  \/ (TermsActs \/ TerminalSteps) /\ UNCHANGED <<files, apps>>
  \/ Ends({"completed", "failed"})
  \/ Show \/ ShowHome

Next == (Resume \/ (~Urgent /\ Events)) /\ UNCHANGED tour

Spec == Init /\ [][Next]_vars

------------------------------------------------------------------------------
(* Properties.                                                             *)

\* No flag stays when nothing is left that takes it back: the spinners of the two lists
\* turn exactly while their latest request is outstanding, an upload counts as going on
\* exactly while it, or the listing after it, does; and an app action and the details of
\* an app are waited for only while there is such a request.
FlagsEnd ==
  /\ files.loading <=> \E c \in files.list : c.latest
  /\ apps.loading <=> \E c \in apps.list : c.latest
  /\ files.uploading <=> \/ \E o \in ops : o.kind = "upload" /\ o.phase # "over"
                         \/ \E c \in files.list : c.upload
  /\ apps.running => \/ \E o \in ops : o.kind \in {"install", "export"} /\ o.phase # "over"
                     \/ \E c \in apps.list : c.run
                     \/ \E k \in DOMAIN apps.work : apps.work[k] > 0
  /\ apps.infoLoading => apps.work.info > 0
==============================================================================
