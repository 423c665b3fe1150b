---------------------------- MODULE MCChannels -----------------------------
(*****************************************************************************)
(* The channels for TLC, each part on a small instance of its own: the       *)
(* channel service, the Telegram channel and its renderer, what chat and     *)
(* home clients of the web channel are shown, terminal streams and the       *)
(* screen of a terminal. A behaviour runs one part.                          *)
(*****************************************************************************)
EXTENDS Telegram, Naturals, Sequences, FiniteSets, TLC

\* The part that runs, and the state of every part.
VARIABLES part, log, kq, wsq, tmq, inbox, pw, pt, requests_pc, pm, answers,
          errors, shown, agent, up, requests_told, dead, attached, outputs,
          events, failed, turn, live, panels_queue, event, call, panels,
          screen, owner, ended, refused, silent, faults, sess, posted,
          waiting, livetext_live, renderers, chat, home, alarm, typing,
          lost, disk, mem, svcs, dying, thr, ear, bus, seen, seenF,
          home_told, torn, rx, view, sub, ask, reqs, home_crashes, fails,
          late, doc, max, done, chunks, child, tty, wrote, unread, input,
          reader, chunk, start, streams_next, running, subs, chan, nextSub,
          fwd, managed, svc, req, streams_inbox, streams_sent, web, primary,
          alternate, use_alternate, row, col, saved, saw_alternate, moves,
          erases, returns, feeds, visible, tab, fed, text

\* The constructors of documents.
Doc == INSTANCE TelegramSplit WITH Docs <- {}, Limits <- {}

\* Documents of one or two blocks, among them every kind of block and the
\* nestings that render differently.
Plain(n) == <<Doc!Ch(n), Doc!Ch(n + 1), Doc!Sp, Doc!Ch(n + 2)>>
Lines(n) == <<Doc!Ch(n), Doc!Nl, Doc!Wide(n + 1), Doc!Ch(n + 2), Doc!Nl, Doc!Nl, Doc!Ch(n + 3), Doc!Sp, Doc!Ch(n + 4)>>

Blocks(n) == {
    Doc!Para(<<Doc!Text(Plain(n))>>),
    Doc!Para(<<Doc!Text(Lines(n))>>),
    Doc!Para(<<Doc!Text(<<Doc!Ch(n)>>), Doc!Wrap(<<Doc!Text(Plain(n + 1)), Doc!Wrap(<<Doc!Text(<<Doc!Wide(n + 5)>>)>>)>>), Doc!Text(<<Doc!Nl, Doc!Ch(n + 6)>>)>>),
    Doc!Code(Lines(n)),
    Doc!Table(Plain(n)),
    Doc!Rule,
    Doc!Quote(<<Doc!Para(<<Doc!Text(Plain(n))>>), Doc!Para(<<Doc!Text(<<Doc!Ch(n + 4)>>)>>)>>),
    Doc!Quote(<<Doc!Para(<<Doc!Text(<<Doc!Ch(n)>>)>>), Doc!Quote(<<Doc!Para(<<Doc!Text(Lines(n + 1))>>)>>)>>),
    Doc!List(0, <<<<Doc!Para(<<Doc!Text(<<Doc!Ch(n)>>)>>)>>, <<Doc!Code(<<Doc!Ch(n + 1), Doc!Nl>>)>>, <<Doc!Rule>>>>),
    Doc!List(8, <<<<Doc!Para(<<Doc!Text(<<Doc!Ch(n)>>)>>)>>, <<Doc!Para(<<Doc!Text(<<Doc!Wide(n + 1)>>)>>)>>, <<Doc!Para(<<Doc!Text(<<Doc!Ch(n + 2)>>)>>)>>>>),
    Doc!List(1, <<<<Doc!Para(<<Doc!Text(Plain(n))>>), Doc!Para(<<Doc!Text(Plain(n + 3))>>)>>, <<Doc!Quote(<<Doc!Para(<<Doc!Text(<<Doc!Ch(n + 6)>>)>>)>>)>>>>),
    Doc!List(3, <<<<Doc!Para(<<Doc!Text(<<Doc!Ch(n)>>)>>), Doc!List(0, <<<<Doc!Para(<<Doc!Text(<<Doc!Ch(n + 1)>>)>>)>>, <<Doc!Table(<<Doc!Ch(n + 2)>>)>>>>)>>, <<Doc!List(0, <<<<Doc!Para(<<Doc!Text(<<Doc!Ch(n + 3)>>)>>)>>>>)>>>>)
    }

MCDocs == {<<b>> : b \in Blocks(1)} \cup {<<b, c>> : b \in Blocks(1), c \in Blocks(21)}
MCLimits == 2..14

Requests == INSTANCE Channel WITH
    ChannelId <- "main", Sessions <- {"main"}, Subagents <- {}, Paths <-
    {"p"}, MaxIngress <- 3, MaxOutputs <- 0, MaxEvents <- 0, Stops <- FALSE,
    pc <- requests_pc, told <- requests_told

Outputs == INSTANCE Channel WITH
    ChannelId <- "main", Sessions <- {"main", "side"}, Subagents <- {},
    Paths <- {"p", "q"}, MaxIngress <- 2, MaxOutputs <- 1, MaxEvents <- 0,
    Stops <- TRUE, pc <- requests_pc, told <- requests_told

Side == INSTANCE Channel WITH
    ChannelId <- "side", Sessions <- {"main", "side"}, Subagents <- {"sub"},
    Paths <- {"p"}, MaxIngress <- 1, MaxOutputs <- 1, MaxEvents <- 1, Stops
    <- FALSE, pc <- requests_pc, told <- requests_told

WithAdmin == INSTANCE Telegram WITH
    Users <- {"ann", "bob"}, Groups <- {"g"}, MaxUpdates <- 2, MaxCrashes <-
    1, MaxSaveErrors <- 0, Configured <- {"ann"}, MaxSecurityErrors <- 0

Panels == INSTANCE TelegramOut WITH
    Sessions <- {"a"}, MaxTurns <- 2, MaxSilent <- 0, MaxQueue <- 2,
    MaxFaults <- 2, queue <- panels_queue

Two == INSTANCE TelegramOut WITH
    Sessions <- {"a", "b"}, MaxTurns <- 1, MaxSilent <- 0, MaxQueue <- 2,
    MaxFaults <- 1, queue <- panels_queue

LiveText == INSTANCE WebLive WITH
    Users <- {"u1"}, MaxTurns <- 2, MaxMsgs <- 1, MaxRetries <- 1, MaxPosts
    <- 1, MaxIdx <- 3, Chunks <- {"opens", "closes", "link", "web", "code"},
    Items <- {}, MaxParts <- 0, PendingLimit <- 3, MaxLost <- 0, MidLink <-
    FALSE, Reposts <- FALSE, Compacts <- FALSE, Crashes <- FALSE, live <-
    livetext_live

Events == INSTANCE WebLive WITH
    Users <- {"u1"}, MaxTurns <- 2, MaxMsgs <- 2, MaxRetries <- 0, MaxPosts
    <- 2, MaxIdx <- 2, Chunks <- {"plain"}, Items <- {1}, MaxParts <- 2,
    PendingLimit <- 3, MaxLost <- 0, MidLink <- FALSE, Reposts <- TRUE,
    Compacts <- FALSE, Crashes <- TRUE, live <- livetext_live

Lost == INSTANCE WebLive WITH
    Users <- {"u1"}, MaxTurns <- 2, MaxMsgs <- 2, MaxRetries <- 0, MaxPosts
    <- 1, MaxIdx <- 2, Chunks <- {"plain", "link"}, Items <- {1}, MaxParts
    <- 0, PendingLimit <- 3, MaxLost <- 1, MidLink <- FALSE, Reposts <-
    FALSE, Compacts <- TRUE, Crashes <- TRUE, live <- livetext_live

Home == INSTANCE WebHome WITH
    Threads <- {1}, Convs <- {"c1"}, Names <- {"n1"}, Sessions <- {"s1"},
    Ops <- {"create", "rename", "delete", "get", "appended"}, Serial <-
    TRUE, Known <- TRUE, MaxReqs <- 3, MaxCrashes <- 1, MaxFails <- 1,
    MaxLate <- 1, told <- home_told, crashes <- home_crashes

Racing == INSTANCE WebHome WITH
    Threads <- {1, 2}, Convs <- {"c1"}, Names <- {"n1"}, Sessions <- {"s1"},
    Ops <- {"create", "rename"}, Serial <- FALSE, Known <- TRUE, MaxReqs <-
    3, MaxCrashes <- 0, MaxFails <- 0, MaxLate <- 0, told <- home_told,
    crashes <- home_crashes

Marking == INSTANCE WebHome WITH
    Threads <- {1, 2}, Convs <- {"c1"}, Names <- {"n1"}, Sessions <- {"s1"},
    Ops <- {"create", "new", "seen"}, Serial <- FALSE, Known <- TRUE,
    MaxReqs <- 2, MaxCrashes <- 1, MaxFails <- 1, MaxLate <- 1, told <-
    home_told, crashes <- home_crashes

Sessions == INSTANCE WebHome WITH
    Threads <- {1}, Convs <- {"c1"}, Names <- {"n1"}, Sessions <- {"s1"},
    Ops <- {"create", "new", "renameS", "deleteS"}, Serial <- TRUE, Known <-
    TRUE, MaxReqs <- 4, MaxCrashes <- 0, MaxFails <- 0, MaxLate <- 0, told
    <- home_told, crashes <- home_crashes

Split == INSTANCE TelegramSplit WITH
    Docs <- MCDocs, Limits <- MCLimits

Streams == INSTANCE Terminal WITH
    Clients <- {"a"}, MaxOut <- 2, BufferMax <- 1, ChanCap <- 2, InputCap <-
    1, MaxRequests <- 3, Lingers <- TRUE, Ops <- {"attach", "detach",
    "terminate", "input", "config"}, next <- streams_next, inbox <-
    streams_inbox, sent <- streams_sent

PlainScreen == INSTANCE TerminalScreen WITH
    Rows <- 2, Cols <- 3, TabWidth <- 2, Glyphs <- {"x", "y"}, Units <-
    {"lf"}, MaxUnits <- 9

Screen == INSTANCE TerminalScreen WITH
    Rows <- 2, Cols <- 3, TabWidth <- 2, Glyphs <- {"x"}, Units <- {"cr",
    "lf", "bs", "tab", "goto", "move", "erase", "scroll", "save", "restore",
    "alt", "sgr", "reset"}, MaxUnits <- 4

\* What the components assume of their constants.
ASSUME SuiteAssumption ==
    /\ TelegramAssumption
    /\ Requests!ChannelAssumption
    /\ Outputs!ChannelAssumption
    /\ Side!ChannelAssumption
    /\ WithAdmin!TelegramAssumption
    /\ Panels!TelegramOutAssumption
    /\ Two!TelegramOutAssumption
    /\ LiveText!WebLiveAssumption
    /\ Events!WebLiveAssumption
    /\ Lost!WebLiveAssumption
    /\ Home!WebHomeAssumption
    /\ Racing!WebHomeAssumption
    /\ Marking!WebHomeAssumption
    /\ Sessions!WebHomeAssumption
    /\ Streams!TerminalAssumption
    /\ PlainScreen!ScreenAssumption
    /\ Screen!ScreenAssumption

channelVars == <<log, kq, wsq, tmq, inbox, pw, pt, requests_pc, pm, answers,
    errors, shown, agent, up, requests_told, dead, attached, outputs,
    events, failed>>
telegramOutVars == <<turn, live, panels_queue, event, call, panels, screen,
    owner, ended, refused, silent, faults>>
webLiveVars == <<sess, posted, waiting, livetext_live, renderers, chat,
    home, alarm, typing, lost>>
webHomeVars == <<disk, mem, svcs, dying, thr, ear, bus, seen, seenF,
    home_told, torn, rx, view, sub, ask, reqs, home_crashes, fails, late>>
telegramSplitVars == <<doc, max, done, chunks>>
terminalVars == <<child, tty, wrote, unread, input, reader, chunk, start,
    streams_next, running, subs, chan, nextSub, fwd, managed, svc, req,
    streams_inbox, streams_sent, web>>
terminalScreenVars == <<primary, alternate, use_alternate, row, col, saved,
    saw_alternate, moves, erases, returns, feeds, visible, tab, fed, text>>

\* Only the chosen part takes steps.
Others(p) ==
    /\ UNCHANGED part
    /\ p \notin {"requests", "outputs", "side"} => UNCHANGED channelVars
    /\ p \notin {"users", "granted"} => UNCHANGED vars
    /\ p \notin {"panels", "two"} => UNCHANGED telegramOutVars
    /\ p \notin {"text", "events", "lost"} => UNCHANGED webLiveVars
    /\ p \notin {"home", "racing", "marking", "sessions"} => UNCHANGED webHomeVars
    /\ p # "split" => UNCHANGED telegramSplitVars
    /\ p # "streams" => UNCHANGED terminalVars
    /\ p \notin {"plain", "screen"} => UNCHANGED terminalScreenVars

SuiteInit ==
    /\ part \in {"users", "requests", "outputs", "side", "granted", "panels", "two", "text", "events", "lost", "home", "racing", "marking", "sessions", "split", "streams", "plain", "screen"}
    /\ IF part = "outputs" THEN Outputs!Init ELSE IF part = "side" THEN Side!Init ELSE Requests!Init
    /\ part \notin {"requests", "outputs", "side"} => up = {"main"}
    /\ IF part = "granted" THEN WithAdmin!Init ELSE Init
    /\ IF part = "two" THEN Two!Init ELSE Panels!Init
    /\ IF part = "events" THEN Events!Init ELSE IF part = "lost" THEN Lost!Init ELSE LiveText!Init
    /\ IF part = "racing" THEN Racing!Init ELSE IF part = "marking" THEN Marking!Init ELSE IF part = "sessions" THEN Sessions!Init ELSE Home!Init
    /\ Split!Init
    /\ part # "split" => doc = <<Doc!Rule>> /\ max = 2
    /\ Streams!Init
    /\ IF part = "screen" THEN Screen!Init ELSE PlainScreen!Init

SuiteNext ==
    \/ part = "users" /\ Next /\ Others("users")
    \/ part = "requests" /\ Requests!Next /\ Others("requests")
    \/ part = "outputs" /\ Outputs!Next /\ Others("outputs")
    \/ part = "side" /\ Side!Next /\ Others("side")
    \/ part = "granted" /\ WithAdmin!Next /\ Others("granted")
    \/ part = "panels" /\ Panels!Next /\ Others("panels")
    \/ part = "two" /\ Two!Next /\ Others("two")
    \/ part = "text" /\ LiveText!Next /\ Others("text")
    \/ part = "events" /\ Events!Next /\ Others("events")
    \/ part = "lost" /\ Lost!Next /\ Others("lost")
    \/ part = "home" /\ Home!Next /\ Others("home")
    \/ part = "racing" /\ Racing!Next /\ Others("racing")
    \/ part = "marking" /\ Marking!Next /\ Others("marking")
    \/ part = "sessions" /\ Sessions!Next /\ Others("sessions")
    \/ part = "split" /\ Split!Next /\ Others("split")
    \/ part = "streams" /\ Streams!Next /\ Others("streams")
    \/ part = "plain" /\ PlainScreen!Next /\ Others("plain")
    \/ part = "screen" /\ Screen!Next /\ Others("screen")

suiteVars == <<part, channelVars, vars, telegramOutVars, webLiveVars, webHomeVars, telegramSplitVars, terminalVars, terminalScreenVars>>

SuiteSpec == SuiteInit /\ [][SuiteNext]_suiteVars

-----------------------------------------------------------------------------
\* The event that carries a request id carries the answer to that request,
\* although the kernel's answers are matched by order alone, terminal output
\* arrives between the answers and the kernel answers for missing services.
AnswerIsOwn ==
    /\ part = "requests" => Requests!AnswerIsOwn
    /\ part = "outputs" => Outputs!AnswerIsOwn

\* What is pending is on its way, services that are not running included: no
\* response leaves its entry behind for a later one to be matched with.
PendingIsBacked ==
    /\ part = "requests" => Requests!PendingIsBacked
    /\ part = "outputs" => Outputs!PendingIsBacked
    /\ part = "side" => Side!PendingIsBacked

\* A message reaches its session at most once, and messages that take the
\* same way stay in the order the platform sent them.
SameWayInOrder ==
    /\ part = "requests" => Requests!SameWayInOrder
    /\ part = "outputs" => Outputs!SameWayInOrder
    /\ part = "side" => Side!SameWayInOrder

\* The channel of a session shows events of this session and of subagents,
\* and none of another foreground session.
ShowsOwnSession == part = "side" => Side!ShowsOwnSession

\* No reply is swallowed: when the end of a turn has been handled its reply
\* is on the screen, unless the API refused a call of that turn.
NoReplySwallowed ==
    /\ part = "panels" => Panels!NoReplySwallowed
    /\ part = "two" => Two!NoReplySwallowed

\* When a turn has completed or failed, the panel of that turn shows so.
PanelShowsEnd ==
    /\ part = "panels" => Panels!PanelShowsEnd
    /\ part = "two" => Two!PanelShowsEnd

\* The replies of a session are shown in the order of its turns, a repeated
\* one next to its first copy.
RepliesInOrder ==
    /\ part = "panels" => Panels!RepliesInOrder
    /\ part = "two" => Two!RepliesInOrder

\* A chat client shows what the session streamed: its text, with links turned
\* back, and what the renderer still holds make up the text of the live
\* message, whenever the client subscribed.
TextIsShownOnce == part = "text" => LiveText!TextIsShownOnce

\* A client follows the live message: the two name the same one as soon as it
\* has text.
ClientFollows == part = "text" => LiveText!ClientFollows

\* The live state says "running" exactly while a turn of the session is under
\* way, or was cut off for a message that begins the next one.
RunningIsTrue == part = "events" => Events!RunningIsTrue

\* What is shown as queued is what was posted since a turn last completed,
\* each message once, be it written to the history by now or not: no turn
\* that fails or is cut off, and no other event, takes a message away.
QueuedIsRecent == part = "events" => Events!QueuedIsRecent

\* A home subscriber that has read all it was sent shows the state of the
\* session.
HomeConverges == part = "events" => Events!HomeConverges

\* A response that one attempt streamed completely raises no commit mismatch.
NoFalseAlarm ==
    /\ part = "text" => LiveText!NoFalseAlarm
    /\ part = "events" => Events!NoFalseAlarm

\* No renderer outlives its turn.
RenderersEnd ==
    /\ part = "text" => LiveText!RenderersEnd
    /\ part = "events" => Events!RenderersEnd

\* Nobody is shown typing for a session that crashed, or that is idle with no
\* message to begin a turn with.
TypingEnds ==
    /\ part = "text" => LiveText!TypingEnds
    /\ part = "events" => Events!TypingEnds

\* Even when events are lost the live message is never text with a hole: it
\* is a prefix of what was streamed.
NoHole == part = "lost" => Lost!NoHole

\* When nothing is under way and the home client has read all it was sent, it
\* shows every conversation as the kernels have it: the name, the sessions,
\* and none that was deleted, although updates also come through the bridge,
\* later than the answers to the requests that made them.
HomeIsTrue ==
    /\ part = "home" => Home!HomeIsTrue
    /\ part = "sessions" => Sessions!HomeIsTrue

\* A kernel that runs has its metadata on disk as it holds it, so a restart
\* finds what clients were told, also by requests that gave up waiting.
KernelIsOnDisk ==
    /\ part = "home" => Home!KernelIsOnDisk
    /\ part = "racing" => Racing!KernelIsOnDisk
    /\ part = "marking" => Marking!KernelIsOnDisk

\* A seen mark that home clients were told survives a restart, unless a write
\* of the file was cut in between.
SeenIsDurable == part = "marking" => Marking!SeenIsDurable

\* Every foreground session the client is shown has a service that answers it
\* and is not about to stop.
SessionIsThere == part = "sessions" => Sessions!SessionIsThere

\* When the reader has finished, no subscription is left whose forwarder
\* would wait for ever: attaching checks the status under the lock that the
\* reader takes before it clears the subscribers.
NoOrphanSubscriber == Streams!NoOrphanSubscriber

\* A terminal leaves the manager only when its child is killed or has ended.
ForgottenIsKilled == Streams!ForgottenIsKilled

\* Output never reaches a client out of order, whatever was replayed,
\* published and forwarded at the same time.
OutputKeepsOrder == Streams!OutputKeepsOrder

\* Every message of a document that was split fits, whatever the marks,
\* numbers and breaks that rendering adds.
ChunksFit == Split!ChunksFit

\* The messages hold the document's content, all of it, once and in order.
ContentKept == Split!ContentKept

\* The items of a numbered list that is cut into messages keep counting.
NumbersContinue == Split!NumbersContinue

\* Paragraphs, code and rules are always split: only for a table, or a mark
\* that leaves no room in an item or a nested quote, the source text is cut.
FlatSplits == Split!FlatSplits

\* Plain output, characters and line feeds only, is shown as its last lines
\* cut at the right border: what a terminal of that size would show.
PlainTextIsShown == part = "plain" => PlainScreen!PlainTextIsShown

\* What the primary screen showed is untouched while a full-screen program
\* uses the alternate one, so that it is back when the program ends. An
\* answer meanwhile carries a snapshot, and it is of the alternate screen.
PrimaryIsKept == Screen!PrimaryIsKept

\* The channel service gives every answer to the request it is for, although
\* most answers carry no id, passes on a message once and in order, and shows
\* a channel only the events of its session.
AnswersAreMatched ==
    /\ part = "requests" => Requests!TypeOK
    /\ part = "outputs" => Outputs!TypeOK
    /\ part = "side" => Side!TypeOK
    /\ AnswerIsOwn
    /\ PendingIsBacked
    /\ SameWayInOrder
    /\ ShowsOwnSession

\* Over an API that fails and loses answers, no reply is swallowed or
\* overtaken, and the panel of a turn that ended shows its end.
RepliesAreKept ==
    /\ part = "panels" => Panels!TypeOK
    /\ part = "two" => Two!TypeOK
    /\ NoReplySwallowed
    /\ PanelShowsEnd
    /\ RepliesInOrder

\* What a chat client of the web channel is shown is what the session does:
\* no text twice or missing, no false alarm, running exactly while it runs,
\* queued what was posted since a turn completed, and no renderer is left
\* behind.
LiveViewIsTrue ==
    /\ part = "text" => LiveText!TypeOK
    /\ part = "events" => Events!TypeOK
    /\ part = "lost" => Lost!TypeOK
    /\ TextIsShownOnce
    /\ ClientFollows
    /\ RunningIsTrue
    /\ QueuedIsRecent
    /\ NoFalseAlarm
    /\ RenderersEnd
    /\ TypingEnds

\* What a home client is shown is what is on disk and runs: no event of its
\* stream is missing, names and marks are the last ones, sessions and
\* conversations exist.
HomeViewIsTrue ==
    /\ part = "text" => LiveText!TypeOK
    /\ part = "events" => Events!TypeOK
    /\ part = "lost" => Lost!TypeOK
    /\ part = "home" => Home!TypeOK
    /\ part = "racing" => Racing!TypeOK
    /\ part = "marking" => Marking!TypeOK
    /\ part = "sessions" => Sessions!TypeOK
    /\ HomeConverges
    /\ NoHole
    /\ HomeIsTrue
    /\ KernelIsOnDisk
    /\ SeenIsDurable
    /\ SessionIsThere

\* A terminal gives its clients its output in order, forgets none that still
\* runs and none that still listens, and the screen shows what a terminal of
\* its size would.
TerminalIsFaithful ==
    /\ [](/\ Streams!TypeOK
          /\ part = "plain" => PlainScreen!TypeOK
          /\ part = "screen" => Screen!TypeOK
          /\ NoOrphanSubscriber
          /\ ForgottenIsKilled
          /\ OutputKeepsOrder
          /\ PlainTextIsShown)
    /\ PrimaryIsKept

\* Every part of a split rich text fits its limit, and together the parts
\* have the text and the numbering of the whole.
SplitsAreFaithful ==
    /\ ChunksFit
    /\ ContentKept
    /\ NumbersContinue
    /\ FlatSplits

=============================================================================
