----------------------------- MODULE AppManager -----------------------------
(***************************************************************************)
(* The app view (AppManagerView.ts, useAppManagerTabs.ts): a tab for each  *)
(* device, the list of the apps of the active one, and what is done to an  *)
(* app.  As in the file view no navigation is waited for.                  *)
(***************************************************************************)
EXTENDS Transfers, WorkspaceTabs

VARIABLE apps

\* "listed": the device whose apps are listed.  "list" and "work" are the outstanding
\* requests, of the second kind their numbers.  "running" is what useAsyncAction says.
InitApps(T) ==
  apps = [tabs |-> T, mounted |-> FALSE, loading |-> FALSE, listed |-> NoDevice, running |-> FALSE,
            info |-> FALSE, infoLoading |-> FALSE, list |-> {},
            work |-> [launch |-> 0, uninstall |-> 0, info |-> 0]]

\* "run": an action waits for the end of the request.
AppsCall(d, run) == [dev |-> d, phase |-> "asked", latest |-> TRUE, run |-> run]

\* begin: the request that waits is aborted, which shows only if an action waits for it.
SupersededApps(C) ==
  {[c EXCEPT !.latest = FALSE, !.phase = IF @ = "asked" THEN "aborted" ELSE @] :
     c \in {b \in C : b.phase # "asked" \/ b.run}}

\* loadApps, up to its request.
LoadApps(A, run) ==
  IF A.tabs.active = NoDevice
  THEN [A EXCEPT !.listed = NoDevice, !.loading = FALSE, !.list = SupersededApps(@),
                 !.running = @ /\ ~run]
  ELSE [A EXCEPT !.listed = NoDevice, !.loading = TRUE,
                 !.list = SupersededApps(@) \cup {AppsCall(A.tabs.active, run)}]

AppsEnds(A, c) ==
  [A EXCEPT !.list = @ \ {c}, !.loading = @ /\ ~c.latest, !.running = @ /\ ~c.run]

\* Whose answer it is is looked at when its headers arrive, not when its body does.
AppsHeaders ==
  \E c \in apps.list :
    /\ c.phase = "asked"
    /\ apps' = [apps EXCEPT !.list = (@ \ {c}) \cup {[c EXCEPT !.phase = "body"]}]

AppsArrive ==
  \E c \in apps.list : c.phase = "body"
                       /\ apps' = AppsEnds([apps EXCEPT !.listed = c.dev], c)

AppsFail == \E c \in apps.list : apps' = AppsEnds(apps, c)

AppsListSteps == /\ AppsHeaders \/ AppsArrive \/ AppsFail
                 /\ UNCHANGED <<poolVars, ops, shown, moves>>

------------------------------------------------------------------------------
(* The tabs.                                                               *)

AppsOpenTab(A, d) == LoadApps([A EXCEPT !.tabs = TabOpened(@, d)], FALSE)

\* The view is shown: it loads only when it is shown first or is asked to open a device.
AppsShown(d) ==
  LET A == [apps EXCEPT !.mounted = TRUE]
  IN  apps' = IF d # NoDevice THEN AppsOpenTab(A, d)
              ELSE IF apps.mounted THEN apps ELSE LoadApps(A, FALSE)

AppsActivateTab ==
  \E d \in TabDevices(apps.tabs) \ {apps.tabs.active} :
    /\ Move /\ shown = "apps"
    /\ apps' = LoadApps([apps EXCEPT !.tabs = TabActivated(@, d)], FALSE)
    /\ UNCHANGED <<poolVars, ops, shown>>

AppsCloseTab ==
  \E d \in TabDevices(apps.tabs) :
    /\ Move /\ shown = "apps"
    /\ LET A == [apps EXCEPT !.tabs = TabClosed(@, d)]
       IN  apps' = IF d = apps.tabs.active THEN LoadApps(A, FALSE) ELSE A
    /\ UNCHANGED <<poolVars, ops, shown>>

RefreshApps ==
  /\ Move /\ shown = "apps" /\ ~apps.loading /\ apps.tabs.active # NoDevice
  /\ apps' = LoadApps(apps, FALSE)
  /\ UNCHANGED <<poolVars, ops, shown>>

------------------------------------------------------------------------------
(* What is done to an app.                                                 *)

\* The menu of an app that is listed.  It stays open over a list that changes.
AppMenu == shown = "apps" /\ apps.tabs.active # NoDevice

\* useAsyncAction: an action begins; no action minds that another one is running.
Runs(A) == [A EXCEPT !.running = TRUE]

Ran(A, ok) == [A EXCEPT !.running = FALSE]

\* handleApkSelected
InstallApk ==
  /\ Move /\ AppMenu /\ ~apps.running /\ ~apps.loading
  /\ apps' = Runs(apps)
  /\ ops' = Started("install", apps.tabs.active, 1)
  /\ UNCHANGED <<poolVars, shown>>

InstallEnds(S) ==
  /\ \E o \in ops, status \in S :
       /\ o.kind = "install" /\ TransferEnds(o, status)
       /\ apps' = IF status = "completed" THEN LoadApps(Ran(apps, TRUE), FALSE) ELSE Ran(apps, FALSE)
  /\ UNCHANGED <<account, shown, moves>>

DownloadApp ==
  /\ Move /\ AppMenu
  /\ apps' = Runs(apps)
  /\ ops' = Started("export", apps.tabs.active, 1)
  /\ UNCHANGED <<poolVars, shown>>

DownloadAppEnds(S) ==
  /\ \E o \in ops, status \in S :
       o.kind = "export" /\ TransferEnds(o, status) /\ apps' = Ran(apps, status = "completed")
  /\ UNCHANGED <<account, shown, moves>>

LaunchApp ==
  /\ Move /\ AppMenu
  /\ apps' = [Runs(apps) EXCEPT !.work.launch = @ + 1]
  /\ UNCHANGED <<poolVars, ops, shown>>

AppLaunched ==
  /\ apps.work.launch > 0
  /\ \E ok \in BOOLEAN : apps' = [Ran(apps, ok) EXCEPT !.work.launch = @ - 1]
  /\ UNCHANGED <<poolVars, ops, shown, moves>>

UninstallApp ==
  /\ Move /\ AppMenu
  /\ apps' = [Runs(apps) EXCEPT !.work.uninstall = @ + 1]
  /\ UNCHANGED <<poolVars, ops, shown>>

\* A success loads the list of the tab that is active by then.
AppUninstalled ==
  /\ apps.work.uninstall > 0
  /\ LET A == [apps EXCEPT !.work.uninstall = @ - 1]
     IN  apps' \in {Ran(A, FALSE), LoadApps(A, TRUE)}
  /\ UNCHANGED <<poolVars, ops, shown, moves>>

OpenAppInfo ==
  /\ Move /\ AppMenu /\ ~apps.info
  /\ apps' = [Runs(apps) EXCEPT !.info = TRUE, !.infoLoading = TRUE, !.work.info = @ + 1]
  /\ UNCHANGED <<poolVars, ops, shown>>

\* The details open the dialog, also one that was closed meanwhile.
InfoArrives ==
  /\ apps.work.info > 0
  /\ apps' = [Ran(apps, TRUE) EXCEPT !.work.info = @ - 1, !.info = TRUE, !.infoLoading = FALSE]
  /\ UNCHANGED <<poolVars, ops, shown, moves>>

InfoFails ==
  /\ apps.work.info > 0
  /\ apps' = [Ran(apps, FALSE) EXCEPT !.work.info = @ - 1, !.infoLoading = FALSE]
  /\ UNCHANGED <<poolVars, ops, shown, moves>>

CloseAppInfo ==
  /\ Move /\ shown = "apps" /\ apps.info
  /\ apps' = [apps EXCEPT !.info = FALSE]
  /\ UNCHANGED <<poolVars, ops, shown>>

AppsActs ==
  \/ AppsActivateTab \/ AppsCloseTab \/ RefreshApps \/ InstallApk \/ DownloadApp
  \/ LaunchApp \/ UninstallApp \/ OpenAppInfo \/ CloseAppInfo

AppsWorked == AppLaunched \/ AppUninstalled \/ InfoArrives \/ InfoFails
==============================================================================
