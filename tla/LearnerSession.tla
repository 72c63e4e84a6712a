--------------------------- MODULE LearnerSession ---------------------------
(***************************************************************************)
(* How a learner's browser gets and keeps a session: public/learner/app.js *)
(* (api, openSession, submitEnrol, the boot) and crypto.js (the device key *)
(* in IndexedDB), against the session route of server/server.js with       *)
(* enrollment.js and the rate limiter.                                     *)
(*                                                                         *)
(* A page has several calls under way at once (refresh starts four), and   *)
(* each may find the session gone and open a new one.  A call runs         *)
(* undisturbed from one await to the next.  The route itself does not      *)
(* await, so answering a request is one action.  A participation code      *)
(* stands for the handle derived from it.                                  *)
(***************************************************************************)
EXTENDS RateLimiter

CONSTANTS
  Devices, Calls,
  AddressOf,        \* the address a device is seen at
  Codes,            \* the codes the partners issued
  Wrong,            \* any other code
  MaxGen,           \* bound: device keys a browser generates
  MaxRestarts,      \* bound: restarts of the server
  None

ASSUME DevicesAssumption == AddressOf \in [Devices -> Addresses] /\ Calls # {}
ASSUME CodesAssumption == Wrong \notin Codes /\ None \notin Codes \cup {Wrong}
ASSUME CountsAssumption == MaxGen \in Nat /\ MaxRestarts \in Nat

VARIABLES
  hits,         \* the rate limiter's table
  boot,         \* restarts so far: a session token is good for one of them
  registered,   \* store.devices: the key a code was last proved with
  idb,          \* IndexedDB of each device: its key, token and code
  minted,       \* keys generated so far, per device
  page,         \* the page a device has open
  call,         \* per device: its calls
  cards,        \* the keys cards were sealed to
  wiped,        \* history: those of them the learner cleared afterwards
  tried         \* history: ages of the wrong codes of an address that were
                \* looked at since it entered a right one or was forgotten

server == <<hits, boot, registered>>
vars == <<hits, boot, registered, idb, minted, page, call, cards, wiped, tried>>
-----------------------------------------------------------------------------
Keys == Devices \X (1..MaxGen)
Token == [boot : 0..MaxRestarts, code : Codes]
Typed == Codes \cup {Wrong, None}

ASSUME NoneAssumption == None \notin Keys \cup Token

Identity == [key : 0..MaxGen, token : Token \cup {None}, code : Typed]
Page == [screen : {"closed", "boot", "enrol", "home", "error"},
         loading : BOOLEAN, token : Token \cup {None}]
Call == [pc : {"idle", "try", "open", "mint", "post", "answered", "saveToken", "saveCode"},
         why : {"boot", "enrol", "api"}, use : Typed, key : 0..MaxGen,
         token : Token \cup {None}, status : {200, 403, 429}]

TypeOK ==
  /\ hits \in [Addresses -> Ages] /\ tried \in [Addresses -> Seq(0..Window)]
  /\ boot \in 0..MaxRestarts
  /\ registered \in [Codes -> Keys \cup {None}]
  /\ idb \in [Devices -> Identity]
  /\ minted \in [Devices -> 0..MaxGen]
  /\ page \in [Devices -> Page]
  /\ call \in [Devices -> [Calls -> Call]]
  /\ cards \subseteq Keys /\ wiped \subseteq Keys

Idle == [pc |-> "idle", why |-> "api", use |-> None, key |-> 0, token |-> None, status |-> 200]
Empty == [key |-> 0, token |-> None, code |-> None]
Closed == [screen |-> "closed", loading |-> FALSE, token |-> None]

Init ==
  /\ hits = [a \in Addresses |-> <<>>] /\ tried = [a \in Addresses |-> <<>>]
  /\ boot = 0 /\ registered = [c \in Codes |-> None]
  /\ idb = [d \in Devices |-> Empty] /\ minted = [d \in Devices |-> 0]
  /\ page = [d \in Devices |-> Closed]
  /\ call = [d \in Devices |-> [k \in Calls |-> Idle]]
  /\ cards = {} /\ wiped = {}

Valid(token) == token # None /\ token.boot = boot

Quiet(d) == \A k \in Calls : call[d][k].pc = "idle"
-----------------------------------------------------------------------------
(***************************************************************************)
(* The page.                                                               *)
(***************************************************************************)
At(d, k, pc) == call[d][k].pc = pc
Becomes(d, k, c) == call' = [call EXCEPT ![d][k] = c]

\* openSession is called: by the boot, with a code just typed, or by api().
Opening(why, typed) == [Idle EXCEPT !.pc = "open", !.why = why, !.use = typed]

\* The bound on the keys leaves one for a page that finds none.
OpenPage(d) ==
  /\ page[d].screen = "closed" /\ (idb[d].key # 0 \/ minted[d] < MaxGen)
  /\ page' = [page EXCEPT ![d].screen = "boot"]
  /\ \E k \in Calls : Becomes(d, k, Opening("boot", None))
  /\ UNCHANGED <<server, idb, minted, cards, wiped, tried>>

\* What the page held is gone; an answer still on its way is not heard.
ClosePage(d) ==
  /\ page[d].screen # "closed"
  /\ page' = [page EXCEPT ![d] = Closed]
  /\ call' = [call EXCEPT ![d] = [k \in Calls |-> Idle]]
  /\ UNCHANGED <<server, idb, minted, cards, wiped, tried>>

\* The learner clears the site's data, with the page closed.
ClearData(d) ==
  /\ page[d].screen = "closed" /\ idb[d].key # 0
  /\ wiped' = wiped \cup (cards \cap {<<d, idb[d].key>>})
  /\ idb' = [idb EXCEPT ![d] = Empty]
  /\ UNCHANGED <<server, minted, page, call, cards, tried>>

PressEnrol(d, code) ==
  /\ page[d].screen = "enrol" /\ Quiet(d)
  /\ \E k \in Calls : Becomes(d, k, Opening("enrol", code))
  /\ UNCHANGED <<server, idb, minted, page, cards, wiped, tried>>

\* Anything on the home screen calls the api; with a good token it is answered.
PressHome(d, k) ==
  /\ page[d].screen = "home" /\ At(d, k, "idle")
  /\ Becomes(d, k, [Idle EXCEPT !.pc = "try"])
  /\ UNCHANGED <<server, idb, minted, page, cards, wiped, tried>>

\* A card is sealed to the public key its code was last proved with.
SealedTo(code) == registered[code]

\* POST /api/swap, up to its card.
PressSwap(d) ==
  /\ page[d].screen = "home" /\ Valid(page[d].token)
  /\ cards' = cards \cup {SealedTo(page[d].token.code)}
  /\ UNCHANGED <<server, idb, minted, page, call, wiped, tried>>

\* api(): answered, or 401 and a session is opened first.
TryApi(d, k) ==
  /\ At(d, k, "try")
  /\ Becomes(d, k, IF Valid(page[d].token) THEN Idle ELSE Opening("api", None))
  /\ UNCHANGED <<server, idb, minted, page, cards, wiped, tried>>

\* The first screen is shown once every call of refresh is answered.
ShowHome(d) ==
  /\ page[d].loading /\ Quiet(d)
  /\ page' = [page EXCEPT ![d].screen = "home", ![d].loading = FALSE]
  /\ UNCHANGED <<server, idb, minted, call, cards, wiped, tried>>
-----------------------------------------------------------------------------
(***************************************************************************)
(* openSession.                                                            *)
(***************************************************************************)
HasKey(d) == idb[d].key # 0

\* openSealed: the private key in the browser opens what was sealed to its own
\* public key, and nothing else.
Opens(d, key) == key = <<d, idb[d].key>>

\* The request carries the stored token only at the boot, and the code just
\* typed or else the stored one.
Posting(d, k) ==
  [call[d][k] EXCEPT !.pc = "post", !.key = idb[d].key,
     !.use = IF @ # None THEN @ ELSE idb[d].code,
     !.token = IF call[d][k].why = "boot" THEN idb[d].token ELSE None]

ReadIdentity(d, k) ==
  /\ At(d, k, "open") /\ HasKey(d)
  /\ Becomes(d, k, Posting(d, k))
  /\ UNCHANGED <<server, idb, minted, page, cards, wiped, tried>>

GenerateKey(d, k) ==
  /\ At(d, k, "open") /\ ~HasKey(d) /\ minted[d] < MaxGen
  /\ minted' = [minted EXCEPT ![d] = @ + 1]
  /\ Becomes(d, k, [call[d][k] EXCEPT !.pc = "mint", !.key = minted[d] + 1])
  /\ UNCHANGED <<server, idb, page, cards, wiped, tried>>

StoreIdentity(d, k) ==
  /\ At(d, k, "mint")
  /\ idb' = [idb EXCEPT ![d] = [Empty EXCEPT !.key = call[d][k].key]]
  /\ Becomes(d, k, [call[d][k] EXCEPT !.pc = "post"])
  /\ UNCHANGED <<server, minted, page, cards, wiped, tried>>

\* A call of the page fails: the boot asks for a code if it was refused one;
\* refresh fails with the first of its calls, at the boot for good.
Failed(d, why, status) ==
  page' = [page EXCEPT ![d].loading = FALSE,
                       ![d].screen = CASE why = "boot" /\ status = 403 -> "enrol"
                                       [] @ = "boot" /\ ~(why = "boot" /\ status = 403) -> "error"
                                       [] OTHER -> @]

Refused(d, k) ==
  /\ At(d, k, "answered") /\ call[d][k].status = 403
  /\ Becomes(d, k, Idle) /\ Failed(d, call[d][k].why, 403)
  /\ UNCHANGED <<server, idb, minted, cards, wiped, tried>>

\* Any other answer is taken for a session; a 429 holds no token.
TakeToken(d, k) ==
  /\ At(d, k, "answered") /\ call[d][k].status # 403
  /\ page' = [page EXCEPT ![d].token = call[d][k].token]
  /\ Becomes(d, k, [call[d][k] EXCEPT !.pc = "saveToken", !.status = 200])
  /\ UNCHANGED <<server, idb, minted, cards, wiped, tried>>

\* The session is open: api() calls itself again, and the boot and the
\* enrolment call refresh, which calls api() several times at once.
Opened(d, k) ==
  LET refreshes == call[d][k].why # "api"
  IN  /\ call' = [call EXCEPT ![d] =
           [j \in Calls |-> IF j = k \/ (refreshes /\ @[j].pc = "idle")
                              THEN [Idle EXCEPT !.pc = "try"] ELSE @[j]]]
      /\ page' = [page EXCEPT ![d].loading = @ \/ refreshes]

SaveToken(d, k) ==
  LET use == call[d][k].use
  IN  /\ At(d, k, "saveToken")
      /\ idb' = [idb EXCEPT ![d].token = call[d][k].token]
      /\ IF use # None /\ use # idb[d].code
           THEN Becomes(d, k, [call[d][k] EXCEPT !.pc = "saveCode"]) /\ UNCHANGED page
           ELSE Opened(d, k)
      /\ UNCHANGED <<server, minted, cards, wiped, tried>>

SaveCode(d, k) ==
  /\ At(d, k, "saveCode")
  /\ idb' = [idb EXCEPT ![d].code = call[d][k].use]
  /\ Opened(d, k)
  /\ UNCHANGED <<server, minted, cards, wiped, tried>>

\* fetch fails.
NetworkFails(d, k) ==
  /\ call[d][k].pc \in {"try", "post"}
  /\ Becomes(d, k, Idle) /\ Failed(d, call[d][k].why, 0)
  /\ UNCHANGED <<server, idb, minted, cards, wiped, tried>>
-----------------------------------------------------------------------------
(***************************************************************************)
(* POST /api/session.                                                      *)
(***************************************************************************)
Answer(d, k, status, token) ==
  Becomes(d, k, [call[d][k] EXCEPT !.pc = "answered", !.status = status, !.token = token])

client == <<idb, minted, page, cards, wiped>>

\* The history is kept beside the table: a wrong code that was looked at is
\* added, and whoever the table forgets is forgotten here too.
Remember(a) ==
  tried' = [b \in Addresses |-> IF b = a THEN Append(tried[b], 0)
                                ELSE IF hits'[b] = <<>> THEN <<>> ELSE tried[b]]

\* The token is of this run of the server: nothing else is looked at.
Resume(d, k) ==
  /\ At(d, k, "post") /\ Valid(call[d][k].token)
  /\ Answer(d, k, 200, call[d][k].token)
  /\ UNCHANGED <<server, client, tried>>

Unenrolled(d, k) == At(d, k, "post") /\ ~Valid(call[d][k].token)

AskForCode(d, k) ==
  /\ Unenrolled(d, k) /\ call[d][k].use = None
  /\ Answer(d, k, 403, None)
  /\ UNCHANGED <<server, client, tried>>

\* Mutant: being turned away counts as another failure.
TurnedAwayCounted(a) == hits' \in Recorded(hits, a)

\* Being turned away does not count.
TurnedAway(a) == hits' = [hits EXCEPT ![a] = Fresh(@)]

Throttle(d, k) ==
  LET a == AddressOf[d]
  IN  /\ Unenrolled(d, k) /\ call[d][k].use # None /\ Throttled(hits, a)
      /\ TurnedAway(a)
      /\ Answer(d, k, 429, None)
      /\ UNCHANGED <<boot, registered, client, tried>>

\* enrol.accepts: the code is one that the partners were given.
Accepts(code) == code \in Codes

Reject(d, k) ==
  LET a == AddressOf[d]
  IN  /\ Unenrolled(d, k) /\ call[d][k].use # None /\ ~Throttled(hits, a)
      /\ ~Accepts(call[d][k].use)
      /\ hits' \in Recorded(hits, a) /\ Remember(a)
      /\ Answer(d, k, 403, None)
      /\ UNCHANGED <<boot, registered, client>>

\* Mutant: the first key a code was proved with is kept.
ProvedFirst(c, key) == registered' = [registered EXCEPT ![c] = IF @ = None THEN key ELSE @]

\* The key for the cards to come.
Proved(c, key) == registered' = [registered EXCEPT ![c] = key]

Accept(d, k) ==
  LET a == AddressOf[d]
      c == call[d][k].use
  IN  /\ Unenrolled(d, k) /\ Accepts(c) /\ ~Throttled(hits, a)
      /\ hits' = Cleared(hits, a)
      /\ tried' = [tried EXCEPT ![a] = <<>>]
      /\ Proved(c, <<d, call[d][k].key>>)
      /\ Answer(d, k, 200, [boot |-> boot, code |-> c])
      /\ UNCHANGED <<boot, client>>

\* Someone else, at any address, enters a wrong code.
OtherRejected(a) ==
  /\ ~Throttled(hits, a)
  /\ hits' \in Recorded(hits, a) /\ Remember(a)
  /\ UNCHANGED <<boot, registered, client, call>>

\* Sessions and counts are in memory only; the devices are in the file.
Restart ==
  /\ boot < MaxRestarts
  /\ boot' = boot + 1
  /\ hits' = [a \in Addresses |-> <<>>] /\ tried' = [a \in Addresses |-> <<>>]
  /\ UNCHANGED <<registered, client, call>>

Tick ==
  /\ \E a \in Addresses : hits[a] # Older(hits[a])
  /\ hits' = [a \in Addresses |-> Older(hits[a])]
  /\ tried' = [a \in Addresses |-> Fresh(Older(tried[a]))]
  /\ UNCHANGED <<boot, registered, client, call>>
-----------------------------------------------------------------------------
Learner(d) ==
  \/ OpenPage(d) \/ ClosePage(d) \/ ClearData(d) \/ PressSwap(d)
  \/ \E code \in Codes \cup {Wrong} : PressEnrol(d, code)
  \/ \E k \in Calls : PressHome(d, k)

Browser(d, k) ==
  \/ TryApi(d, k) \/ ReadIdentity(d, k) \/ GenerateKey(d, k) \/ StoreIdentity(d, k)
  \/ Refused(d, k) \/ TakeToken(d, k) \/ SaveToken(d, k) \/ SaveCode(d, k)

Route(d, k) ==
  \/ Resume(d, k) \/ AskForCode(d, k) \/ Throttle(d, k) \/ Reject(d, k) \/ Accept(d, k)

Next ==
  \/ \E d \in Devices : Learner(d) \/ ShowHome(d)
  \/ \E d \in Devices, k \in Calls : Browser(d, k) \/ Route(d, k) \/ NetworkFails(d, k)
  \/ \E a \in Addresses : OtherRejected(a)
  \/ Restart \/ Tick

Spec == Init /\ [][Next]_vars

(***************************************************************************)
(* Fairness: what a call waits for comes, be it the browser or the server, *)
(* and time passes.  Learners, and others at the address, do what they     *)
(* like.                                                                   *)
(***************************************************************************)
Fairness ==
  /\ \A d \in Devices, k \in Calls : WF_vars(Browser(d, k) \/ Route(d, k))
  /\ \A d \in Devices : WF_vars(ShowHome(d))
  /\ WF_vars(Tick)

FairSpec == Spec /\ Fairness
-----------------------------------------------------------------------------
\* "Eight wrong codes from one address per ten minutes" (server.js lines 80-81):
\* in no stretch of a window are more looked at, unless the address entered a
\* right one in between, the server restarted, or the address was forgotten.
GuessesBounded == \A a \in Addresses : Len(tried[a]) <= Limit

\* The table stays small, and room is made at the cost of the address that
\* failed longest ago: whoever still has failures that count loses them only
\* to a right code, to a restart, or to a full table of which nobody's last
\* failure is older.
ForgetsTheColdest ==
  [][\A a \in Addresses :
       /\ Cardinality(Known(hits')) <= MaxKeys
       /\ Fresh(hits[a]) # <<>> /\ hits'[a] = <<>> =>
            \/ boot' # boot
            \/ \E d \in Devices, k \in Calls : AddressOf[d] = a /\ Accept(d, k)
            \/ /\ Cardinality(Known(hits)) = MaxKeys
               /\ \A b \in Known(hits) : LastAge(hits[b]) <= LastAge(hits[a])]_vars

\* For a learner with one device: however many of a page's calls re-attach at
\* once, however often the server restarts, and after the site's data were
\* cleared and the code was entered again, a card is sealed to the key that is
\* in IndexedDB, and stays readable until the learner clears that.
CardsCanBeOpened ==
  \A key \in cards : Opens(key[1], key) \/ key \in wiped

\* api() calls itself again whenever it has opened a session, also with a 429
\* in place of one.  Once nobody enters wrong codes any more that comes to an
\* end: every call is answered, with a session or with an error.
EveryCallIsAnswered ==
  <>[](\A a \in Addresses : tried[a] = <<>>) =>
    \A d \in Devices, k \in Calls : ~At(d, k, "idle") ~> At(d, k, "idle")
=============================================================================
