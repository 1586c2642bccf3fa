------------------------------ MODULE Torikuru ------------------------------
(***************************************************************************)
(* The capture side of torikuru: torikuru_t::Run, Init, MainLoop and Clear *)
(* (src/src/torikuru.cc) driving one consumer_t (src/src/consumer.cc) per  *)
(* configured session on one event queue.                                 *)
(*                                                                         *)
(*   setup     : RFA context, event queue, log provider, output file;     *)
(*   create    : consumer_t::Init for every session, in order;             *)
(*   streams   : CreateItemStream for every instrument on every consumer;  *)
(*             then Resubscribe() on every consumer, in order;             *)
(*   loop      : the queue dispatches one feed event at a time to the      *)
(*               consumer it belongs to, until the time limit elapses or   *)
(*               the shared synchronisation lambda deactivates the queue;  *)
(*   Clear     : the archive streams are closed (flushed) and the process  *)
(*               exits.                                                    *)
(*                                                                         *)
(* Sessions are 1..Len(Protocols), in the order of config_.sessions. Each  *)
(* consumer's directory holds symbol keys; an item stream is identified by *)
(* (session, symbol). Statistics counters and timestamps that no control   *)
(* decision reads are left out.                                            *)
(***************************************************************************)
EXTENDS Integers, Sequences, FiniteSets, Config

CONSTANTS
  Symbols,            \* symbol names (model values)
  MsgTypes,           \* market data message types the feed may send
  DataFormats,        \* data formats the feed may send
  SetupFails,         \* whether an RFA/queue/log/file step of Init may fail
  ConsumerInitFails,  \* whether consumer_t::Init may return false
  RegisterOutcomes,   \* what registerClient/subscribe may do: "ok", "null", "throw"
  Signalled,          \* whether the process may be killed by a signal
  MaxItemEvents,      \* bound on non-resolving events per item
  MaxLogins           \* bound on login responses per session

\* The transport each configured session selects.
Protocols == [s \in DOMAIN SessionUrls |-> Transport(Configured[s].protocol)]

Sessions == 1..Len(Protocols)

AllMsgTypes == {"Image", "Update", "UnsolicitedImage", "Status", "Correction",
                "ClosingRun", "Rename", "PermissionData", "GroupChange", "Other"}

ASSUME /\ Instruments \in Seq(Symbols)
       /\ SessionUrls # <<>>
       /\ ~HasSwitch("input-path")    \* the capture branch of Run; Convert is Converter
       /\ {SetupFails, ConsumerInitFails, Signalled} \subseteq BOOLEAN
       /\ MsgTypes \subseteq AllMsgTypes
       /\ DataFormats \subseteq {"Marketfeed", "ANSI_Page"}
       /\ "ok" \in RegisterOutcomes
       /\ RegisterOutcomes \subseteq {"ok", "null", "throw"}
       /\ MaxItemEvents \in Nat /\ MaxLogins \in Nat

\* torikuru.cc:263 passes !terminate_on_sync as interest_after_refresh.
InterestAfterRefresh == ~TerminateOnSync

VARIABLES
  phase,            \* "setup", "create", "streams", "loop",
                    \* "done" (MainLoop returned), "failed" (Init returned false),
                    \* "exited" (Clear ran), "killed" (ended by a signal)
  nextSession,      \* the consumer the create / streams / subscribe loop is at
  nextInstrument,   \* the instrument the streams loop is at
  muted,            \* per session: is_muted_
  directory,        \* per session: keys of directory_
  feed,             \* per session and symbol: "none" (item_handle null), "open",
                    \* "closed" (by the feed), "unregistered" (by the consumer)
  reqs,             \* per session and symbol: requests that returned a handle
  unregs,           \* per session and symbol: unregisterClient calls on its handle
  refreshReceived,  \* per session and symbol: item_stream->refresh_received
  isClosed,         \* per session and symbol: item_stream->is_closed
  refreshCount,     \* per session: refresh_count_
  inSync,           \* per session: in_sync_
  syncCalls,        \* per session: calls of on_sync_()
  consumersInSync,  \* consumers_in_sync_
  allSynced,        \* times f0 found every consumer synchronised
  events,           \* per session and symbol: non-resolving events (bounded)
  loginState,       \* per session: last login response ("none" before any)
  logins,           \* per session: login responses delivered (bounded)
  archive,          \* frames written to coded_stream_, as [session, item, type]
  rfaConfig,        \* rfa_t::rfa_config_ after the merge (<<>> before)
  file              \* frames that reached the output file

vars == <<rfaConfig, phase, nextSession, nextInstrument, muted, directory, feed, reqs,
          unregs, refreshReceived, isClosed, refreshCount, inSync, syncCalls,
          consumersInSync, allSynced, events, loginState, logins, archive, file>>

\* The per-consumer state, left alone by a step of the driver.
consumerVars == <<muted, directory, feed, reqs, unregs, refreshReceived,
                  isClosed, refreshCount, inSync, syncCalls, events,
                  loginState, logins>>

HasHandle(s, k) == feed[s][k] # "none"

\* An item has had its terminal "first response": a first image, or a close.
Resolved(s, k) == refreshReceived[s][k] > 0 \/ isClosed[s][k]

AllResolved(s) == directory[s] # {} /\ \A k \in directory[s] : Resolved(s, k)

PerItem(v) == [s \in Sessions |-> [k \in Symbols |-> v]]

-----------------------------------------------------------------------------
(* consumer_t constructors and torikuru_t's state before Init.             *)
(* torikuru_t's constructor: no consumer in sync, no output stream; the  *)
(* driver is about to run Init.                                           *)
DriverConstructed ==
  /\ phase = "setup"
  /\ nextSession = 1
  /\ nextInstrument = 1
  /\ consumersInSync = 0
  /\ allSynced = 0
  /\ archive = <<>>
  /\ file = <<>>
  /\ rfaConfig = <<>>

(* consumer_t's constructor: muted, refresh_count_ 0, not in sync, no     *)
(* login response yet, an empty directory.                                 *)
ConsumersConstructed ==
  /\ muted = [s \in Sessions |-> TRUE]
  /\ directory = [s \in Sessions |-> {}]
  /\ refreshCount = [s \in Sessions |-> 0]
  /\ inSync = [s \in Sessions |-> FALSE]
  /\ syncCalls = [s \in Sessions |-> 0]
  /\ loginState = [s \in Sessions |-> "none"]
  /\ logins = [s \in Sessions |-> 0]

(* item_stream_t's constructor: a null item_handle, no message, not closed. *)
ItemStreamsConstructed ==
  /\ feed = PerItem("none")
  /\ reqs = PerItem(0)
  /\ unregs = PerItem(0)
  /\ refreshReceived = PerItem(0)
  /\ isClosed = PerItem(FALSE)
  /\ events = PerItem(0)

\* main() constructs torikuru_t and calls Run().
Init == DriverConstructed /\ ConsumersConstructed /\ ItemStreamsConstructed

\* The result of one RFA create/acquire/merge call, or of open(2), in Init.
SetupCall == IF SetupFails THEN BOOLEAN ELSE {TRUE}

\* The staging database rfa_t::Init builds from config_.sessions.
Staged == Staging(Configured)

(* rfa_t::Init: the staging database is created (null returns false) and *)
(* filled, an unsupported protocol returning false; when some session is  *)
(* ssled the Marketfeed dictionary is read, which may fail; the config     *)
(* database is acquired and merged, each of which may fail. The set of     *)
(* results Init can return.                                                *)
RfaInit ==
  IF ~Staged.ok
    THEN {FALSE}
    ELSE {staged /\ dict /\ acquired /\ merged :
            staged \in SetupCall,
            dict \in IF Staged.ssled THEN SetupCall ELSE {TRUE},
            acquired \in SetupCall, merged \in SetupCall}

(* LogEventProvider::Register: acquire the application logger, create its *)
(* monitor and register the logger client; a null result returns false.   *)
LogRegister ==
  {logger /\ monitor /\ handle :
     logger \in SetupCall, monitor \in SetupCall, handle \in SetupCall}

(* Init: the configuration is parsed (a URL without a user name while   *)
(* LOGNAME is unset faults there); then rfa_t::Init, the event queue, the *)
(* log provider and, with an output path, the archive file; the first     *)
(* failure returns false, and Run then calls Clear. The config database   *)
(* holds the staged entries once rfa_t::Init has merged them.             *)
Setup ==
  /\ phase = "setup"
  /\ \/ /\ LogNameFault(SessionUrls)
        /\ phase' = "killed"
        /\ UNCHANGED rfaConfig
     \/ /\ ~LogNameFault(SessionUrls)
        /\ \E rfa \in RfaInit, queue \in SetupCall, log \in LogRegister,
              out \in IF Capture THEN SetupCall ELSE {TRUE} :
             /\ phase' = IF rfa /\ queue /\ log /\ out THEN "create" ELSE "failed"
             /\ rfaConfig' = IF rfa THEN Staged.db ELSE <<>>
  /\ UNCHANGED <<nextSession, nextInstrument, consumerVars, consumersInSync,
                 allSynced, archive, file>>

\* The result of one RFA acquire/create/register call: non-null or null.
CallOutcomes == IF ConsumerInitFails THEN BOOLEAN ELSE {TRUE}

(* SendLoginRequest: the login request is built and validated (a failed    *)
(* validation is only logged) and registered; a null handle returns false. *)
SendLoginRequest(s) == CallOutcomes

(* consumer_t::Init: acquire the session, create the OMM consumer or the   *)
(* market data subscriber and register for its error events, each null     *)
(* result returning false; an rssl consumer then returns the result of     *)
(* SendLoginRequest.                                                       *)
ConsumerInit(s) ==
  IF Protocols[s] = "rssl"
    THEN {x /\ y : x \in CallOutcomes, y \in SendLoginRequest(s)}
    ELSE CallOutcomes

(* The next step of a loop over the consumers: the following consumer, or   *)
(* the first one again once the last is done.                              *)
NextConsumer == IF nextSession = Len(Protocols) THEN 1 ELSE nextSession + 1

(* The consumer creation loop, torikuru.cc:261-266. *)
CreateConsumer ==
  /\ phase = "create"
  /\ \E ok \in ConsumerInit(nextSession) :
       IF ok THEN /\ nextSession' = NextConsumer
                  /\ phase' = IF nextSession = Len(Protocols) THEN "streams"
                              ELSE phase
             ELSE /\ phase' = "failed"
                  /\ UNCHANGED nextSession
  /\ UNCHANGED <<rfaConfig, nextInstrument, consumerVars, consumersInSync, allSynced,
                 archive, file>>

(* CreateItemStream(instrument) on one consumer, from the nested loops at  *)
(* torikuru.cc:269-280. The consumer is always muted here (no event has    *)
(* been dispatched yet), so no request is sent; a duplicate key is         *)
(* rejected by emplace and the caller drops the new stream.                *)
CreateItemStream ==
  /\ phase = "streams"
  /\ nextInstrument <= Len(Instruments)
  /\ muted[nextSession]
  /\ directory' = [directory EXCEPT ![nextSession] = @ \cup {Instruments[nextInstrument]}]
  /\ nextSession' = NextConsumer
  /\ nextInstrument' = IF nextSession = Len(Protocols) THEN nextInstrument + 1
                       ELSE nextInstrument
  /\ UNCHANGED <<rfaConfig, phase, muted, feed, reqs, unregs, refreshReceived, isClosed,
                 refreshCount, inSync, syncCalls, consumersInSync, allSynced,
                 events, loginState, logins, archive, file>>

\* Mutant of Pending: the "only non-fulfilled items" test dropped.
PendingAll(s) == directory[s]

(* Resubscribe(): only entries whose item_handle is still null.            *)
Pending(s) == {k \in directory[s] : ~HasHandle(s, k)}

(* The possible results of one Resubscribe() pass over Pending(s): `ok`    *)
(* got a handle; with `threw` a registerClient/subscribe call raised and   *)
(* ended the loop before every pending entry was tried; entries tried but  *)
(* not in `ok` got a null handle.                                          *)
ResubscribeOutcomes(s) ==
  { r \in [ok : SUBSET Pending(s), threw : BOOLEAN] :
      /\ r.threw => ("throw" \in RegisterOutcomes /\ r.ok # Pending(s))
      /\ (~r.threw /\ r.ok # Pending(s)) => "null" \in RegisterOutcomes }

(* SendItemRequest / AddSubscription for every entry of `ok`.              *)
Register(s, ok) ==
  /\ feed' = [feed EXCEPT ![s] = [k \in Symbols |-> IF k \in ok THEN "open" ELSE @[k]]]
  /\ reqs' = [reqs EXCEPT ![s] = [k \in Symbols |-> IF k \in ok THEN @[k] + 1 ELSE @[k]]]

(* consumer->Resubscribe() in the loop at torikuru.cc:283; an exception    *)
(* out of it is caught at torikuru.cc:287 and Init returns false.          *)
InitResubscribe ==
  /\ phase = "streams"
  /\ nextInstrument > Len(Instruments)
  /\ \E r \in ResubscribeOutcomes(nextSession) :
       /\ Register(nextSession, r.ok)
       /\ phase' = CASE r.threw                          -> "failed"
                     [] nextSession = Len(Protocols)     -> "loop"
                     [] OTHER                            -> phase
  /\ nextSession' = NextConsumer
  /\ UNCHANGED <<rfaConfig, nextInstrument, muted, directory, unregs, refreshReceived,
                 isClosed, refreshCount, inSync, syncCalls, consumersInSync,
                 allSynced, events, loginState, logins, archive, file>>

(* MainLoop sets end_time = start_time + atoi(time_limit) and dispatches   *)
(* while now < end_time or end_time = start_time: a limit of 0 (or none)  *)
(* never ends the loop, and a negative one ends it before the first        *)
(* dispatch, when now is still start_time.                                 *)
Dispatching == phase = "loop" /\ TimeLimit >= 0

-----------------------------------------------------------------------------
(* OnLoginResponse: stream state x data state. Open/Ok is OnLoginSuccess:  *)
(* Resubscribe() and then unmute, both inside one try block, so an         *)
(* exception from Resubscribe() skips the unmute. Open/Suspect and Closed  *)
(* mute. Any other combination is discarded.                               *)
LoginSuccess(s) ==
  /\ \E r \in ResubscribeOutcomes(s) :
       /\ Register(s, r.ok)
       /\ muted' = [muted EXCEPT ![s] = r.threw /\ @]
  /\ loginState' = [loginState EXCEPT ![s] = "success"]

\* Mutant of LoginSuspectOrClosed: the handler forgets to set is_muted_.
LoginSuspectOrClosedUnmuted(s, state) ==
  /\ loginState' = [loginState EXCEPT ![s] = state]
  /\ UNCHANGED <<muted, feed, reqs>>

LoginSuspectOrClosed(s, state) ==
  /\ muted' = [muted EXCEPT ![s] = TRUE]
  /\ loginState' = [loginState EXCEPT ![s] = state]
  /\ UNCHANGED <<feed, reqs>>

OnLoginResponse(s) ==
  /\ Dispatching
  /\ Protocols[s] = "rssl"
  /\ logins[s] < MaxLogins
  /\ \/ LoginSuccess(s)
     \/ LoginSuspectOrClosed(s, "suspect")
     \/ LoginSuspectOrClosed(s, "closed")
     \/ UNCHANGED <<muted, loginState, feed, reqs>>   \* discarded combination
  /\ logins' = [logins EXCEPT ![s] = @ + 1]
  /\ UNCHANGED <<rfaConfig, phase, nextSession, nextInstrument, directory, unregs,
                 refreshReceived, isClosed, refreshCount, inSync, syncCalls,
                 consumersInSync, allSynced, events, archive, file>>

(* OnMarketPrice: an OMM response on an item stream only updates the       *)
(* item's counters; nothing is captured and the synchronisation state is  *)
(* not examined.                                                           *)
OnMarketPrice(s, k, respType) ==
  /\ Dispatching
  /\ Protocols[s] = "rssl"
  /\ feed[s][k] = "open"
  /\ events[s][k] < MaxItemEvents
  /\ refreshReceived' = IF respType = "Refresh"
                          THEN [refreshReceived EXCEPT ![s][k] = @ + 1]
                          ELSE refreshReceived
  /\ events' = [events EXCEPT ![s][k] = @ + 1]
  /\ UNCHANGED <<rfaConfig, phase, nextSession, nextInstrument, muted, directory, feed,
                 reqs, unregs, isClosed, refreshCount, inSync, syncCalls,
                 consumersInSync, allSynced, loginState, logins, archive, file>>

-----------------------------------------------------------------------------
(* OnMarketDataItemEvent, the "ssled" item handler, in the order the code  *)
(* runs it, with the callback f0 it may call.                              *)

\* Ignored types jump straight to check_sync.
IgnoredTypes == {"UnsolicitedImage", "Status", "ClosingRun", "PermissionData",
                 "GroupChange"}

\* Mutant of ClosedIncrement: a stream close is never counted.
ClosedNotCounted(s, k, closing) == 0

\* Sanity check on stream state: a close is counted once per stream.
ClosedIncrement(s, k, closing) == IF closing /\ ~isClosed[s][k] THEN 1 ELSE 0

\* Mutant of SyncDue: the in_sync_ guard dropped.
SyncDueUnguarded(s, rc) == rc = Cardinality(directory[s])

\* check_sync: the barrier fires when the count equals the directory size.
SyncDue(s, rc) == ~inSync[s] /\ rc = Cardinality(directory[s])

\* Mutant of AllSessionsSynced: the counter compared before its increment.
AllSessionsSyncedPreIncrement(fire) == fire /\ consumersInSync = Len(Protocols)

\* f0: ++consumers_in_sync_ == consumers_.size().
AllSessionsSynced(fire) == fire /\ consumersInSync + 1 = Len(Protocols)

Deactivates(all) == all /\ TerminateOnSync

\* Mutant of FirstImage: the test admits the second image as well.
FirstImageOffByOne(s, k, t) == t = "Image" /\ refreshReceived[s][k] <= 1

\* 0 == item_stream->refresh_received++ on an image.
FirstImage(s, k, t) == t = "Image" /\ refreshReceived[s][k] = 0

(* A non-resolving event is bounded by MaxItemEvents; a first image or a   *)
(* first close is always possible on an open stream.                       *)
Resolving(s, k, t, closing) ==
  FirstImage(s, k, t) \/ (closing /\ ~isClosed[s][k])

OnMarketDataItemEvent(s, k, t, closing, fmt) ==
  LET rc0   == refreshCount[s] + ClosedIncrement(s, k, closing)
      first == FirstImage(s, k, t)
      rc    == rc0 + (IF first THEN 1 ELSE 0)
      \* control leaves the switch by `break` into the data format check
      toFormat == CASE t = "Image"        -> ~(first /\ DisableRefresh)
                    [] t = "Update"       -> ~DisableUpdate
                    [] t \in IgnoredTypes -> FALSE
                    [] OTHER              -> TRUE
      \* first image with no interest after refresh: close and unregister
      dropAfterImage == first /\ ~DisableRefresh /\ ~InterestAfterRefresh
      badFormat == toFormat /\ fmt # "Marketfeed"
      nUnreg == (IF dropAfterImage THEN 1 ELSE 0) + (IF badFormat THEN 1 ELSE 0)
      fire == SyncDue(s, rc)
      all  == AllSessionsSynced(fire)
  IN
  /\ Dispatching
  /\ Protocols[s] = "ssled"
  /\ feed[s][k] = "open"
  /\ events[s][k] < MaxItemEvents \/ Resolving(s, k, t, closing)
  /\ refreshCount' = [refreshCount EXCEPT ![s] = rc]
  /\ refreshReceived' = IF t = "Image" THEN [refreshReceived EXCEPT ![s][k] = @ + 1]
                                       ELSE refreshReceived
  /\ isClosed' = [isClosed EXCEPT ![s][k] = @ \/ closing \/ dropAfterImage]
  /\ unregs' = [unregs EXCEPT ![s][k] = @ + nUnreg]
  /\ feed' = [feed EXCEPT ![s][k] = CASE nUnreg > 0 -> "unregistered"
                                      [] closing    -> "closed"
                                      [] OTHER      -> "open"]
  /\ archive' = IF toFormat /\ ~badFormat /\ Capture
                  THEN Append(archive, [session |-> s, item |-> k, type |-> t])
                  ELSE archive
  /\ events' = [events EXCEPT ![s][k] = IF Resolving(s, k, t, closing) THEN @
                                        ELSE @ + 1]
  /\ inSync' = [inSync EXCEPT ![s] = @ \/ fire]
  /\ syncCalls' = [syncCalls EXCEPT ![s] = @ + (IF fire THEN 1 ELSE 0)]
  /\ consumersInSync' = consumersInSync + (IF fire THEN 1 ELSE 0)
  /\ allSynced' = allSynced + (IF all THEN 1 ELSE 0)
  /\ phase' = IF Deactivates(all) THEN "done" ELSE phase
  /\ UNCHANGED <<rfaConfig, nextSession, nextInstrument, muted, directory, reqs,
                 loginState, logins, file>>

(* MainLoop returns: a positive run time elapses between two dispatches,   *)
(* or a negative one fails the loop test at once.                          *)
TimeLimitElapsed ==
  /\ phase = "loop"
  /\ TimeLimit # 0
  /\ phase' = "done"
  /\ UNCHANGED <<rfaConfig, nextSession, nextInstrument, consumerVars, consumersInSync,
                 allSynced, archive, file>>

(* Run() calls Clear() after MainLoop returns or Init fails: deleting the  *)
(* coded stream and closing the gzip and file streams writes every frame   *)
(* still buffered to the file; then the consumers are released.            *)
Clear ==
  /\ phase \in {"done", "failed"}
  /\ phase' = "exited"
  /\ file' = archive
  /\ UNCHANGED <<rfaConfig, nextSession, nextInstrument, consumerVars, consumersInSync,
                 allSynced, archive>>

(* No signal handler is installed: SIGINT or SIGTERM ends the process      *)
(* where it is, and only the frames the gzip and file streams had already  *)
(* written out (a prefix of the archive) are in the file.                  *)
Killed ==
  /\ Signalled
  /\ phase \notin {"exited", "killed"}
  /\ phase' = "killed"
  /\ \E n \in 0..Len(archive) : file' = SubSeq(archive, 1, n)
  /\ UNCHANGED <<rfaConfig, nextSession, nextInstrument, consumerVars, consumersInSync,
                 allSynced, archive>>

(* An item event of any type may report its stream closed (the test at    *)
(* consumer.cc:673 comes before the switch on the type).                  *)
ItemEvent(s, k) ==
  \E t \in MsgTypes, fmt \in DataFormats, closing \in BOOLEAN :
    OnMarketDataItemEvent(s, k, t, closing, fmt)

Next ==
  \/ Setup
  \/ CreateConsumer
  \/ CreateItemStream
  \/ InitResubscribe
  \/ \E s \in Sessions : OnLoginResponse(s)
  \/ \E s \in Sessions, k \in Symbols, rt \in {"Refresh", "Update", "Status"} :
       OnMarketPrice(s, k, rt)
  \/ \E s \in Sessions, k \in Symbols : ItemEvent(s, k)
  \/ TimeLimitElapsed
  \/ Clear
  \/ Killed

Spec == Init /\ [][Next]_vars

(* The driver runs Init and Clear to completion without waiting on         *)
(* anything, and the feed is assumed to answer every open subscription     *)
(* with an image, which may or may not close the stream.                   *)
FeedAnswers(s, k) ==
  \E fmt \in DataFormats, closing \in BOOLEAN :
    OnMarketDataItemEvent(s, k, "Image", closing, fmt)

FairSpec ==
  /\ Spec
  /\ WF_vars(Setup) /\ WF_vars(CreateConsumer) /\ WF_vars(CreateItemStream)
  /\ WF_vars(InitResubscribe) /\ WF_vars(Clear)
  /\ \A s \in Sessions, k \in Symbols : WF_vars(FeedAnswers(s, k))

-----------------------------------------------------------------------------
TypeOK ==
  /\ phase \in {"setup", "create", "streams", "loop", "done", "failed",
                "exited", "killed"}
  /\ nextSession \in Sessions
  /\ nextInstrument \in 1..Len(Instruments) + 1
  /\ muted \in [Sessions -> BOOLEAN]
  /\ directory \in [Sessions -> SUBSET Symbols]
  /\ feed \in [Sessions -> [Symbols -> {"none", "open", "closed", "unregistered"}]]
  /\ reqs \in [Sessions -> [Symbols -> Nat]]
  /\ unregs \in [Sessions -> [Symbols -> Nat]]
  /\ refreshReceived \in [Sessions -> [Symbols -> 0..MaxItemEvents + 2]]
  /\ isClosed \in [Sessions -> [Symbols -> BOOLEAN]]
  /\ refreshCount \in [Sessions -> Nat]
  /\ inSync \in [Sessions -> BOOLEAN]
  /\ syncCalls \in [Sessions -> Nat]
  /\ consumersInSync \in Nat
  /\ allSynced \in Nat
  /\ events \in [Sessions -> [Symbols -> 0..MaxItemEvents]]
  /\ loginState \in [Sessions -> {"none", "success", "suspect", "closed"}]
  /\ logins \in [Sessions -> 0..MaxLogins]
  /\ archive \in Seq([session : Sessions, item : Symbols, type : MsgTypes])
  /\ file \in Seq([session : Sessions, item : Symbols, type : MsgTypes])
  /\ rfaConfig \in {<<>>, Staged.db}

(* Once every symbol of a consumer's directory has had its first image or  *)
(* its close, the consumer is synchronised (refresh_count_ reaches         *)
(* directory_.size() and check_sync fires).                                *)
SyncWhenAllResolved == \A s \in Sessions : AllResolved(s) => inSync[s]

(* Each consumer's barrier seen as one of the abstract Barriers: its      *)
(* directory keys, the keys that have had their first image or their       *)
(* close, and in_sync_.                                                    *)
Abstract == INSTANCE Barrier WITH
  Barriers <- Sessions,
  Keys <- Symbols,
  dir <- directory,
  resolved <- [s \in Sessions |-> {k \in directory[s] : Resolved(s, k)}],
  fired <- inSync

(* Every consumer's barrier behaves as the design's barrier promises: the  *)
(* directory is filled before it fires, a symbol once resolved stays       *)
(* resolved, and in_sync_ is set only in a step that leaves every symbol   *)
(* of the directory resolved (check_sync, consumer.cc:791-798, counting    *)
(* first images at 687 and first closes at 676).                           *)
BarrierSafe == Abstract!SafetySpec

(* No symbol is ever subscribed twice on a consumer: Resubscribe() after a *)
(* login success skips every entry whose handle is already set.            *)
NoDuplicateSubscription == \A s \in Sessions, k \in Symbols : reqs[s][k] <= 1

(* The unregisterClient call of OnMarketDataItemEvent is made at most once *)
(* per item handle (spec 8: unsubscribed "exactly once").                   *)
UnsubscribeAtMostOnce == \A s \in Sessions, k \in Symbols : unregs[s][k] <= 1

(* The lambda f0 shared by all consumers reports "All sessions             *)
(* synchronised" (and with --terminate-on-sync deactivates the queue) at   *)
(* most once, and only when every consumer has synchronised.               *)
AllSessionsSyncOnce ==
  /\ allSynced <= 1
  /\ allSynced = 1 => \A s \in Sessions : inSync[s]

(* A consumer is unmuted only while its last login response was a success  *)
(* (design 4.1: publishing and subscribing are suppressed from a suspect   *)
(* or closed login until the next success). OnLoginSuccess unmutes after   *)
(* Resubscribe, OnLoginSuspect and OnLoginClosed mute, a discarded         *)
(* response leaves both alone.                                             *)
UnmutedOnlyAfterLoginSuccess ==
  \A s \in Sessions : ~muted[s] => loginState[s] = "success"

(* When the process has ended, every frame written to the coded stream is  *)
(* in the archive file (spec 5: on a shutdown signal the loop is           *)
(* deactivated and the capture stream released in order).                  *)
ArchiveComplete == phase \in {"exited", "killed"} => file = archive

(* With --terminate-on-sync, a capture whose subscriptions are all         *)
(* answered by the feed ends: Clear runs and the process exits (design     *)
(* 4.3 and 5: the barrier fires once every symbol has resolved, and the    *)
(* callback stops the dispatch loop).                                      *)
EventuallyExits == <>(phase = "exited")

=============================================================================
