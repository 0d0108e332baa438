------------------------------- MODULE Portal --------------------------------
(***************************************************************************)
(* The pages of the portal's frontend, together.  A page is a component    *)
(* that React mounts when it is shown and forgets when it is left, and     *)
(* none reads another's memory, so a behaviour follows the one component   *)
(* `mounted'; the variables of the others hold NotMounted throughout.      *)
(*                                                                         *)
(* The playground's conversations and the voice mode have runs of their    *)
(* own (Playground, Parts).                                                *)
(***************************************************************************)
EXTENDS Dictation, ThreadFiles, ModelText, Studio, Scan, VoiceClone, Support,
        Workbench, AccountPanes, Preferences, Composer, DocPanel, AdminLogs,
        AdminConsole, AdminUsers, SignIn, Lookups

CONSTANT Components \* the components this instance may show

ASSUME PortalAssumption ==
  Components \subseteq {"dictation", "thread", "text", "studio", "scan", "clone",
                       "support", "bench", "account", "preferences", "composer",
                       "panel", "logs", "console", "users", "signin", "lookups"}

VARIABLE mounted    \* the component shown

portalVars == <<mounted, dictVars, threadVars, textVars, studioVars, scanVars,
                cloneVars, supportVars, benchVars, paneVars, prefVars, box,
                panelVars, adminLogVars, consoleVars, userVars, signVars, lookVars>>

NotMounted == <<>>

PortalInit ==
  /\ mounted \in Components
  /\ IF mounted = "dictation" THEN DictInit
     ELSE dict = NotMounted /\ recs = NotMounted /\ passes = NotMounted
  /\ IF mounted = "thread" THEN ThreadInit
     ELSE thread = NotMounted
  /\ IF mounted = "text" THEN TextInit
     ELSE written = NotMounted
  /\ IF mounted = "studio" THEN StudioInit
     ELSE studio = NotMounted /\ jobs = NotMounted /\ calls = NotMounted
  /\ IF mounted = "scan" THEN ScanInit
     ELSE scan = NotMounted
  /\ IF mounted = "clone" THEN CloneInit
     ELSE booth = NotMounted /\ mics = NotMounted /\ posted = NotMounted
  /\ IF mounted = "support" THEN SupportInit
     ELSE desk = NotMounted /\ line = NotMounted
  /\ IF mounted = "bench" THEN BenchInit
     ELSE bench = NotMounted /\ sent = NotMounted
  /\ IF mounted = "account" THEN PanesInit
     ELSE pane = NotMounted /\ account = NotMounted /\ screen = NotMounted /\ wire = NotMounted
  /\ IF mounted = "preferences" THEN PrefInit
     ELSE store = NotMounted /\ win = NotMounted
  /\ IF mounted = "composer" THEN ComposerInit
     ELSE box = NotMounted
  /\ IF mounted = "panel" THEN PanelInit
     ELSE panel = NotMounted /\ frame = NotMounted
  /\ IF mounted = "logs" THEN AdminLogsInit
     ELSE runnerLog = NotMounted /\ logs = NotMounted /\ tails = NotMounted /\ view = NotMounted
  /\ IF mounted = "console" THEN ConsoleInit
     ELSE plant = NotMounted /\ page = NotMounted /\ body = NotMounted /\ mail = NotMounted
  /\ IF mounted = "users" THEN UsersInit
     ELSE directory = NotMounted /\ table = NotMounted /\ post = NotMounted
  /\ IF mounted = "signin" THEN SignInInit
     ELSE vault = NotMounted /\ jar = NotMounted /\ door = NotMounted /\ asked = NotMounted
  /\ IF mounted = "lookups" THEN LookupsInit
     ELSE lookup = NotMounted /\ news = NotMounted /\ look = NotMounted /\ trips = NotMounted /\ payload = NotMounted

\* What is not shown does not move.
Elsewhere ==
  /\ UNCHANGED mounted
  /\ IF mounted = "dictation" THEN TRUE ELSE UNCHANGED dictVars
  /\ IF mounted = "thread" THEN TRUE ELSE UNCHANGED threadVars
  /\ IF mounted = "text" THEN TRUE ELSE UNCHANGED textVars
  /\ IF mounted = "studio" THEN TRUE ELSE UNCHANGED studioVars
  /\ IF mounted = "scan" THEN TRUE ELSE UNCHANGED scanVars
  /\ IF mounted = "clone" THEN TRUE ELSE UNCHANGED cloneVars
  /\ IF mounted = "support" THEN TRUE ELSE UNCHANGED supportVars
  /\ IF mounted = "bench" THEN TRUE ELSE UNCHANGED benchVars
  /\ IF mounted = "account" THEN TRUE ELSE UNCHANGED paneVars
  /\ IF mounted = "preferences" THEN TRUE ELSE UNCHANGED prefVars
  /\ IF mounted = "composer" THEN TRUE ELSE UNCHANGED box
  /\ IF mounted = "panel" THEN TRUE ELSE UNCHANGED panelVars
  /\ IF mounted = "logs" THEN TRUE ELSE UNCHANGED adminLogVars
  /\ IF mounted = "console" THEN TRUE ELSE UNCHANGED consoleVars
  /\ IF mounted = "users" THEN TRUE ELSE UNCHANGED userVars
  /\ IF mounted = "signin" THEN TRUE ELSE UNCHANGED signVars
  /\ IF mounted = "lookups" THEN TRUE ELSE UNCHANGED lookVars

PortalNext ==
  \/ mounted = "dictation" /\ DictNext /\ Elsewhere
  \/ mounted = "thread" /\ ThreadNext /\ Elsewhere
  \/ mounted = "text" /\ TextNext /\ Elsewhere
  \/ mounted = "studio" /\ StudioNext /\ Elsewhere
  \/ mounted = "scan" /\ ScanNext /\ Elsewhere
  \/ mounted = "clone" /\ CloneNext /\ Elsewhere
  \/ mounted = "support" /\ SupportNext /\ Elsewhere
  \/ mounted = "bench" /\ BenchNext /\ Elsewhere
  \/ mounted = "account" /\ PanesNext /\ Elsewhere
  \/ mounted = "preferences" /\ PrefNext /\ Elsewhere
  \/ mounted = "composer" /\ ComposerNext /\ Elsewhere
  \/ mounted = "panel" /\ PanelNext /\ Elsewhere
  \/ mounted = "logs" /\ AdminLogsNext /\ Elsewhere
  \/ mounted = "console" /\ ConsoleNext /\ Elsewhere
  \/ mounted = "users" /\ UsersNext /\ Elsewhere
  \/ mounted = "signin" /\ SignInNext /\ Elsewhere
  \/ mounted = "lookups" /\ LookupsNext /\ Elsewhere

PortalSpec == PortalInit /\ [][PortalNext]_portalVars

-----------------------------------------------------------------------------
(* What the run checks of each component, while it is mounted              *)


\* Every component's state has its type.
PagesTypeOK ==
  /\ mounted \in Components
  /\ mounted = "dictation" => DictTypeOK
  /\ mounted = "thread" => ThreadTypeOK
  /\ mounted = "text" => TextTypeOK
  /\ mounted = "studio" => StudioTypeOK
  /\ mounted = "scan" => ScanTypeOK
  /\ mounted = "clone" => CloneTypeOK
  /\ mounted = "support" => SupportTypeOK
  /\ mounted = "bench" => BenchTypeOK
  /\ mounted = "account" => PanesTypeOK
  /\ mounted = "preferences" => PrefTypeOK
  /\ mounted = "composer" => ComposerTypeOK
  /\ mounted = "panel" => PanelTypeOK
  /\ mounted = "logs" => AdminLogsTypeOK
  /\ mounted = "console" => ConsoleTypeOK
  /\ mounted = "users" => UsersTypeOK
  /\ mounted = "signin" => SignInTypeOK
  /\ mounted = "lookups" => LookupsTypeOK

\* Dictation (useDictation.ts, settle and the pass that answers late): nothing
\* of a message that was sent comes back into the field.
DictationLeavesSent == mounted = "dictation" => SentNeverReturns

\* What is put together from pieces belongs together: a continuation is glued to a
\* file that a cut really left open (filesUntil), and the text of the OCR page was
\* read in the image beside it (extract, the rows of the history).
PiecesFit ==
  /\ mounted = "thread" => OneEnd
  /\ mounted = "scan" => OneSource

\* The algorithms on what a model wrote agree with their references: a cut script
\* is seen to be one, what is repaired is balanced (repair.ts), and the Markdown of
\* a scan has every word of its HTML (ocrToMarkdown).
TextsAreKept ==
  /\ mounted = "text" => CutIsSeen /\ RepairsBalance
  /\ mounted = "scan" => MarkdownKeepsWords

\* No turn of a conversation, whatever the model wrote, makes a file vanish or
\* leaves less than a quarter of it (filesUntil).
FilesStand == [][mounted = "thread" => KeepsFiles]_portalVars

\* Image and video pages (generate, stopPolling): a page that says "Génération
\* en cours" waits for something that will end it.
BusyIsWatched == mounted = "studio" => WatchedWhileBusy

\* What a form lets go, its server accepts: a voice sample is long enough
\* (VoicePage.tsx, MIN_SECONDS), a decision is of the portal's format
\* (validatePayload against validate).
FormsAreAccepted ==
  /\ mounted = "clone" => SampleLongEnough
  /\ mounted = "bench" => PortalAccepts

\* The support page: no answer of a turn that ended stays empty, and an answer
\* is counted one vote at most, unless one was lost over another's.
SupportIsSound == mounted = "support" => SupportSound

\* Nothing in flight, the panes of an account, the log panel, the administration
\* page, the search, the ranking and the home page show what the portal holds and
\* what was asked last; what they say was done is; and the login page accuses
\* nobody whose password was right.
ScreensAreTruthful ==
  /\ mounted = "account" => PanesTruthful
  /\ mounted = "logs" => LogPanelFaithful
  /\ mounted = "console" => ConsoleTruthful
  /\ mounted = "signin" => SignInSound
  /\ mounted = "lookups" => LookupsCurrent

\* A reload of the playground finds the settings and lists the screen had, and
\* the preview runs the document the panel names.
PlaygroundKeeps ==
  /\ mounted = "preferences" => ReloadKeeps
  /\ mounted = "panel" => PreviewMatches

\* No key destroys a written message, and no answer takes away what an admin is
\* typing.
TypedStands ==
  [][/\ mounted = "composer" => KeepsDraft
     /\ mounted = "console" => KeepsKeystrokes]_portalVars

\* A password, a word DELETE or a reason reaches the account whose dialog it was
\* typed in.
TypedReachesItsAccount == mounted = "users" => TypedForThisAccount

=============================================================================
