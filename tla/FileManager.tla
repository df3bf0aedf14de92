----------------------------- MODULE FileManager -----------------------------
(***************************************************************************)
(* The file view (FileManagerView.ts, useFileManagerTabs.ts): a tab for    *)
(* each device with the directory it is at, the listing of the active one, *)
(* and the operations on files.                                            *)
(*                                                                         *)
(* Nothing in the client opens this view with a query in its address, so   *)
(* that the handlers wait for no navigation; a query that a page is loaded *)
(* with is consumed as a request to open the view is.  Dialogs are modal.  *)
(***************************************************************************)
EXTENDS Transfers, WorkspaceTabs

CONSTANTS
  Paths,   \* directories
  Root     \* the one a tab begins at

ASSUME FileManagerAssumption == Root \in Paths

VARIABLE files

Nothing == <<NoDevice, Root>>

\* "loaded": loadedTabKey and loadedPath.  "entries": what was listed that they show.
\* "list" and "work" are the outstanding requests, of the second kind their number.
InitFiles(T) ==
  files = [tabs |-> T, path |-> [d \in Dev |-> Root], loading |-> FALSE, error |-> FALSE,
           loaded |-> Nothing, entries |-> Nothing, uploading |-> FALSE, list |-> {}, work |-> 0]

Here(F) == <<F.tabs.active, F.path[F.tabs.active]>>

HasCurrentListing(F) == F.tabs.active # NoDevice /\ F.loaded = Here(F)

\* A request for a listing; "upload": an upload waits for its end.
ListCall(at, upload) == [at |-> at, phase |-> "asked", latest |-> TRUE, upload |-> upload]

\* begin: the request that waits is aborted, which shows only if an upload waits for it.
SupersededLists(C) ==
  {[c EXCEPT !.latest = FALSE, !.phase = IF @ = "asked" THEN "aborted" ELSE @] :
     c \in {b \in C : b.phase # "asked" \/ b.upload}}

LoadNoFiles(F) ==
  [F EXCEPT !.entries = Nothing, !.error = FALSE, !.loading = FALSE, !.loaded = Nothing,
            !.list = SupersededLists(@)]

\* loadFiles, up to its request; without a tab it ends at once.
LoadFiles(F, upload) ==
  IF F.tabs.active = NoDevice
  THEN [LoadNoFiles(F) EXCEPT !.uploading = @ /\ ~upload]
  ELSE [F EXCEPT !.loading = TRUE, !.error = FALSE,
                 !.list = SupersededLists(@) \cup {ListCall(Here(F), upload)}]

\* Mutated: the end of any request stops the spinner.
ListEnds_Any(F, c) ==
  [F EXCEPT !.list = @ \ {c}, !.loading = FALSE, !.uploading = @ /\ ~c.upload]

\* The end of request c: the latest one stops the spinner; the upload that waited is over.
ListEnds(F, c) ==
  [F EXCEPT !.list = @ \ {c}, !.loading = @ /\ ~c.latest, !.uploading = @ /\ ~c.upload]

ListAborts ==
  \E c \in files.list : c.phase = "aborted" /\ files' = ListEnds(files, c)

\* The answer's headers.  The text of an error is read without another look at what
\* is the latest request.
ListHeaders ==
  \E c \in files.list, ok \in BOOLEAN :
    /\ c.phase = "asked"
    /\ files' = [files EXCEPT !.list = (@ \ {c}) \cup
                   {[c EXCEPT !.phase = IF ok THEN "body" ELSE "refused"]}]

\* Mutated: the entries are there before the second look at what is the latest request.
Listed_Early(F, c) ==
  IF c.latest THEN [F EXCEPT !.entries = c.at, !.loaded = c.at] ELSE [F EXCEPT !.entries = c.at]

Listed(F, c) == IF c.latest THEN [F EXCEPT !.entries = c.at, !.loaded = c.at] ELSE F

ListArrives ==
  \E c \in files.list : c.phase = "body" /\ files' = ListEnds(Listed(files, c), c)

ListRefused ==
  \E c \in files.list : /\ c.phase = "refused"
                        /\ files' = ListEnds([files EXCEPT !.error = TRUE, !.entries = Nothing], c)

ListFails ==
  \E c \in files.list :
    /\ c.phase \in {"asked", "body"}
    /\ files' = ListEnds(IF c.latest THEN [files EXCEPT !.error = TRUE, !.entries = Nothing]
                         ELSE files, c)

ListSteps == /\ \/ ListAborts \/ ListHeaders \/ ListArrives \/ ListRefused \/ ListFails
             /\ UNCHANGED <<poolVars, ops, shown, moves>>

------------------------------------------------------------------------------
(* The tabs.                                                               *)

\* consumeIncomingTab: the tab of device d, which begins anew at the root.
FilesOpenTab(F, d) ==
  LoadFiles([F EXCEPT !.tabs = TabOpened(@, d), !.path[d] = Root], FALSE)

\* The view is shown, to open device d if it was asked to.
FilesShown(d) ==
  files' = IF d # NoDevice THEN FilesOpenTab(files, d) ELSE LoadFiles(files, FALSE)

FilesActivateTab ==
  \E d \in TabDevices(files.tabs) \ {files.tabs.active} :
    /\ Move /\ shown = "files"
    /\ files' = LoadFiles([files EXCEPT !.tabs = TabActivated(@, d)], FALSE)
    /\ UNCHANGED <<poolVars, ops, shown>>

FilesCloseTab ==
  \E d \in TabDevices(files.tabs) :
    /\ Move /\ shown = "files"
    /\ LET F == [files EXCEPT !.tabs = TabClosed(@, d), !.path[d] = Root]
       IN  files' = IF d = files.tabs.active THEN LoadFiles(F, FALSE) ELSE F
    /\ UNCHANGED <<poolVars, ops, shown>>

\* A directory, its parent, a part of the path or a path that is typed is opened.
NavigateToPath ==
  \E p \in Paths :
    /\ Move /\ shown = "files" /\ files.tabs.active # NoDevice /\ ~files.loading
    /\ files' = LoadFiles([files EXCEPT !.path[files.tabs.active] = p], FALSE)
    /\ UNCHANGED <<poolVars, ops, shown>>

RefreshFiles ==
  /\ Move /\ shown = "files" /\ files.tabs.active # NoDevice /\ ~files.loading
  /\ files' = LoadFiles(files, FALSE)
  /\ UNCHANGED <<poolVars, ops, shown>>

------------------------------------------------------------------------------
(* The operations on files.                                                *)

\* A menu of an entry can only be open over the listing that is current.
EntryMenu == /\ shown = "files" /\ HasCurrentListing(files) /\ files.entries # Nothing
             /\ ~files.loading

\* downloadEntry, to a blob or to the file that browserDownloadEntry let choose.
DownloadEntry ==
  /\ Move /\ EntryMenu
  /\ ops' = Started("download", files.tabs.active, 1)
  /\ UNCHANGED <<poolVars, shown, files>>

DownloadEnds(S) ==
  /\ \E o \in ops, status \in S :
       o.kind = "download" /\ TransferEnds(o, status)
  /\ UNCHANGED <<account, shown, moves, files>>

\* uploadSelectedFiles, of one file or of several.
UploadSelectedFiles ==
  \E n \in {1, 2} :
    /\ Move /\ shown = "files" /\ files.tabs.active # NoDevice /\ ~files.uploading /\ ~files.loading
    /\ files' = [files EXCEPT !.uploading = TRUE]
    /\ ops' = Started("upload", files.tabs.active, n)
    /\ UNCHANGED <<poolVars, shown>>

\* The upload is over once the listing that follows its success is.
UploadEnds(S) ==
  /\ \E o \in ops, status \in S :
       /\ o.kind = "upload" /\ TransferEnds(o, status)
       /\ files' = IF status = "completed" THEN LoadFiles(files, TRUE)
                   ELSE [files EXCEPT !.uploading = FALSE]
  /\ UNCHANGED <<account, shown, moves>>

\* renameEntry and deleteEntry, once they are confirmed.
FileWork ==
  /\ Move /\ EntryMenu
  /\ files' = [files EXCEPT !.work = @ + 1]
  /\ UNCHANGED <<poolVars, ops, shown>>

\* A success loads the listing of the tab that is active by then.
FileWorked ==
  /\ files.work > 0
  /\ LET F == [files EXCEPT !.work = @ - 1] IN files' \in {F, LoadFiles(F, FALSE)}
  /\ UNCHANGED <<poolVars, ops, shown, moves>>

FilesActs ==
  \/ FilesActivateTab \/ FilesCloseTab \/ NavigateToPath \/ RefreshFiles
  \/ DownloadEntry \/ UploadSelectedFiles \/ FileWork

------------------------------------------------------------------------------
(* Properties.                                                             *)

\* What is shown as the listing of the active tab was listed for its device and its
\* directory, or is the nothing that an error leaves (hasCurrentListing).
ListingOfTab == HasCurrentListing(files) => files.entries \in {Here(files), Nothing}
==============================================================================
