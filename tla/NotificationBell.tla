-------------------------- MODULE NotificationBell --------------------------
(***************************************************************************)
(* The bell of the web client and the event stream that keeps it true: the *)
(* stream's ticks (notifications.controller.ts), the browser's listener    *)
(* and menu (app-shell.tsx) and the list behind them (widgets.tsx).  A     *)
(* tick asks two questions of the database at once, and each may be        *)
(* answered before or after a row is written; ticks are started by a timer *)
(* and may overlap.  Rows are numbered in the order of their creation.     *)
(***************************************************************************)
EXTENDS Naturals, FiniteSets

CONSTANTS
    Ticks,     \* ticks of the stream that may be under way at once
    FeedLimit, \* rows that one reading of the list brings at most
    MaxRows    \* bound: notifications of the user

Rows == 1..MaxRows

VARIABLES
    rows,       \* how many notifications there are
    unread,     \* those not read yet
    young,      \* those less than fifteen seconds old
    stream,     \* the connection: what its closure remembers, or that it is down
    tick,       \* what each tick has been answered
    told,       \* messages are on their way to the browser
    own,        \* a request of the user's to mark rows read was answered
    bell,       \* the unread list in the browser, if it has been loaded, and its
                \* refetch; history: news came too late for the first of these
    announced,  \* history: how often each row was announced
    news,       \* history: a tick has answered for the rows as they are now
    odd         \* history: the stream has said something in an odd order, or kept silent

bellVars == <<rows, unread, young, stream, tick, told, own, bell, announced, news, odd>>
-----------------------------------------------------------------------------
\* lastUnread is the number last sent plus one, 0 for none yet.
Closed == [up |-> FALSE, lastUnread |-> 0, lastCreated |-> 0]
Opened == [Closed EXCEPT !.up = TRUE]
Idle == [step |-> "idle"]
Asking == [step |-> "asking", count |-> 0, latest |-> 0, counted |-> FALSE, found |-> FALSE]

Init ==
    /\ rows = 0 /\ unread = {} /\ young = {}
    /\ stream = Closed /\ tick = [k \in Ticks |-> Idle]
    /\ told = FALSE /\ own = FALSE
    /\ bell = [shown |-> {}, loaded |-> FALSE, fetch |-> "idle", brings |-> {}, due |-> TRUE,
               late |-> FALSE]
    /\ announced = [r \in Rows |-> 0] /\ news = "changed" /\ odd = FALSE

HalfAnswered == \E k \in Ticks : tick[k] # Idle /\ tick[k].counted # tick[k].found

Create ==
    /\ rows < MaxRows
    /\ rows' = rows + 1
    /\ unread' = unread \cup {rows'} /\ young' = young \cup {rows'}
    /\ odd' = (odd \/ HalfAnswered)
    /\ news' = "changed"
    /\ UNCHANGED <<stream, tick, told, own, bell, announced>>

GrowOld(r) ==
    /\ r \in young /\ young' = young \ {r}
    /\ UNCHANGED <<rows, unread, stream, tick, told, own, bell, announced, news, odd>>

\* markRead and markAllRead, from this browser or another one.
MarkRead(read, here) ==
    /\ read # {} /\ unread' = unread \ read
    /\ own' = (own \/ here) /\ odd' = (odd \/ HalfAnswered)
    /\ news' = "changed"
    /\ UNCHANGED <<rows, young, stream, tick, told, bell, announced>>
-----------------------------------------------------------------------------
\* The browser connects, or reconnects after the connection was lost: the new
\* closure starts from nothing.  A tick of a lost connection does nothing more.
Connect ==
    /\ ~stream.up
    /\ stream' = Opened
    /\ UNCHANGED <<rows, unread, young, tick, told, own, bell, announced, news, odd>>

Drop ==
    /\ stream.up
    /\ stream' = Closed /\ tick' = [k \in Ticks |-> Idle] /\ told' = FALSE
    /\ news' = "changed"
    /\ UNCHANGED <<rows, unread, young, own, bell, announced, odd>>

\* The first tick is awaited; the timer does not wait for those after it.
BeginTick(k) ==
    LET others == \E j \in Ticks : tick[j] # Idle IN
    /\ stream.up /\ tick[k] = Idle
    /\ stream.lastUnread = 0 => ~others
    /\ tick' = [tick EXCEPT ![k] = Asking]
    /\ odd' = (odd \/ others)
    /\ news' = IF news = "changed" THEN "asked" ELSE news
    /\ UNCHANGED <<rows, unread, young, stream, told, own, bell, announced>>

Count(k) ==
    /\ tick[k].step = "asking" /\ ~tick[k].counted
    /\ tick' = [tick EXCEPT ![k].count = Cardinality(unread), ![k].counted = TRUE]
    /\ UNCHANGED <<rows, unread, young, stream, told, own, bell, announced, news, odd>>

\* The newest row since the one last seen when the tick began; both ticks that
\* overlap ask with what the closure holds then.
Find(k) ==
    /\ tick[k].step = "asking" /\ ~tick[k].found
    /\ tick' = [tick EXCEPT ![k].latest = IF rows > stream.lastCreated THEN rows ELSE 0,
                            ![k].found = TRUE]
    /\ UNCHANGED <<rows, unread, young, stream, told, own, bell, announced, news, odd>>

\* Wrong variant: what is there when the stream opens is announced too.
AnnouncesAll(t) == t.latest # 0 /\ t.latest \in young

\* Only rows created after the stream opened are announced.
Announces(t) == t.latest # 0 /\ stream.lastUnread # 0 /\ t.latest \in young

\* The newest row is too old by now: no word of it.
KeepsSilent(t) == t.latest # 0 /\ stream.lastUnread # 0 /\ ~Announces(t)

\* Wrong variant: the count is sent when there are more unread than before.
CountsUp(t) == t.count + 1 > stream.lastUnread

\* The count is sent when it differs from the one last sent.
Counts(t) == t.count + 1 # stream.lastUnread

EndTick(k) ==
    LET t == tick[k] IN
    /\ t.step = "asking" /\ t.counted /\ t.found
    /\ tick' = [tick EXCEPT ![k] = Idle]
    /\ stream' = [stream EXCEPT
                    !.lastCreated = IF t.latest # 0 THEN t.latest ELSE @,
                    !.lastUnread = IF Counts(t) THEN t.count + 1 ELSE @]
    /\ told' = (told \/ Announces(t) \/ Counts(t))
    /\ announced' = IF Announces(t) THEN [announced EXCEPT ![t.latest] = @ + 1] ELSE announced
    /\ news' = IF news = "asked" THEN "seen" ELSE news
    /\ odd' = (odd \/ KeepsSilent(t))
    /\ UNCHANGED <<rows, unread, young, own, bell>>

\* A hiccup of the database: the stream stays open, the tick is forgotten.
TickFails(k) ==
    /\ tick[k] # Idle
    /\ tick' = [tick EXCEPT ![k] = Idle]
    /\ news' = IF news = "asked" THEN "changed" ELSE news
    /\ UNCHANGED <<rows, unread, young, stream, told, own, bell, announced, odd>>
-----------------------------------------------------------------------------
Started == [bell EXCEPT !.fetch = "asked", !.brings = {}, !.due = TRUE, !.late = FALSE]
Joined == [bell EXCEPT !.late = @ \/ (~bell.loaded /\ bell.fetch = "answered")]

\* Wrong variant: any refetch under way is taken for the one that is asked for.
RefetchedJoined == IF bell.fetch = "idle" THEN Started ELSE Joined

\* A refetch under way is abandoned for a new one, but for the first one, which has
\* no list to go back to: that is taken for the one that is asked for.
Refetched == IF bell.fetch = "idle" \/ bell.loaded THEN Started ELSE Joined

\* Any event, or the answer to a request of the user's, has the list refetched.
Invalidate ==
    /\ \/ told /\ told' = FALSE /\ UNCHANGED own
       \/ own /\ own' = FALSE /\ UNCHANGED told
    /\ bell' = Refetched
    /\ UNCHANGED <<rows, unread, young, stream, tick, announced, news, odd>>

\* When the page is loaded, and every half minute.
Poll ==
    /\ bell.fetch = "idle"
    /\ bell' = Started
    /\ UNCHANGED <<rows, unread, young, stream, tick, told, own, announced, news, odd>>

\* `take: 100`, by the time of creation.
Newest(some) == {r \in some : Cardinality({q \in some : q > r}) < FeedLimit}

FeedReads ==
    /\ bell.fetch = "asked"
    /\ bell' = [bell EXCEPT !.fetch = "answered", !.brings = Newest(unread)]
    /\ UNCHANGED <<rows, unread, young, stream, tick, told, own, announced, news, odd>>

FeedArrives ==
    /\ bell.fetch = "answered"
    /\ bell' = [bell EXCEPT !.shown = bell.brings, !.loaded = TRUE, !.fetch = "idle",
                            !.brings = {}, !.due = FALSE]
    /\ UNCHANGED <<rows, unread, young, stream, tick, told, own, announced, news, odd>>

FeedFails ==
    /\ bell.fetch # "idle"
    /\ bell' = [bell EXCEPT !.fetch = "idle", !.brings = {}, !.due = TRUE]
    /\ UNCHANGED <<rows, unread, young, stream, tick, told, own, announced, news, odd>>

Next ==
    \/ Create \/ \E r \in Rows : GrowOld(r)
    \/ \E here \in BOOLEAN : MarkRead(unread, here) \/ \E r \in unread : MarkRead({r}, here)
    \/ Connect \/ Drop
    \/ \E k \in Ticks : BeginTick(k) \/ Count(k) \/ Find(k) \/ EndTick(k) \/ TickFails(k)
    \/ Invalidate \/ Poll \/ FeedReads \/ FeedArrives \/ FeedFails

Spec == Init /\ [][Next]_bellVars
-----------------------------------------------------------------------------
TypeOK ==
    /\ rows \in 0..MaxRows /\ unread \subseteq 1..rows /\ young \subseteq 1..rows
    /\ stream \in [up: BOOLEAN, lastUnread: 0..MaxRows + 1, lastCreated: 0..rows]
    /\ \A k \in Ticks :
         \/ tick[k] = Idle
         \/ tick[k] \in [step: {"asking"}, count: 0..MaxRows, latest: 0..rows,
                         counted: BOOLEAN, found: BOOLEAN]
    /\ told \in BOOLEAN /\ own \in BOOLEAN /\ odd \in BOOLEAN
    /\ news \in {"changed", "asked", "seen"}
    /\ bell \in [shown: SUBSET Rows, loaded: BOOLEAN, fetch: {"idle", "asked", "answered"},
                 brings: SUBSET Rows, due: BOOLEAN, late: BOOLEAN]
    /\ \A r \in Rows : announced[r] \in Nat

\* A tick has asked and been answered since anything changed, and the browser has
\* heard all it said.
Settled == news = "seen" /\ ~told /\ ~own /\ bell.fetch = "idle" /\ ~bell.due

\* When stream and browser are at rest the bell shows what is unread, as far as one
\* reading brings it, whatever was lost, answered in an odd order or read elsewhere on
\* the way.  It need not when news came while the answer to the first reading of the
\* page was on its way: TanStack Query joins that reading, and the bell stays behind
\* until the next poll.
BellIsTrue == Settled /\ ~odd /\ ~bell.late => bell.shown = Newest(unread)

\* A row is announced once, through any number of reconnections, unless two
\* ticks have overlapped.
AnnouncedOnce == odd \/ \A r \in Rows : announced[r] <= 1
=============================================================================
