----------------------------- MODULE RateLimiter -----------------------------
(***************************************************************************)
(* server/ratelimit.js: how many wrong participation codes an address has  *)
(* entered in the last Window, in memory, for at most MaxKeys addresses.   *)
(*                                                                         *)
(* An entry is the sequence of the ages of its failures, the oldest first; *)
(* <<>> is no entry.  An age stops growing at Window, where it no longer   *)
(* counts: nobody looks at how long ago that was.                          *)
(***************************************************************************)
EXTENDS Integers, Sequences, FiniteSets

CONSTANTS
  Addresses,
  Limit,      \* codeAttemptLimit: failures an address may have in the window
  Window,     \* codeAttemptWindowMs, in ticks
  MaxKeys     \* MAX_KEYS: addresses remembered

ASSUME LimiterAssumption ==
  Limit \in Nat \ {0} /\ Window \in Nat \ {0} /\ MaxKeys \in Nat \ {0}

Ages == UNION {[1..n -> 0..Window] : n \in 0..Limit}

\* The failures at the head of an entry that no longer count.
Aged(entry) == {i \in DOMAIN entry : \A j \in 1..i : entry[j] >= Window}

\* What of an entry still counts; whoever looks at it also drops the rest.
Fresh(entry) == SubSeq(entry, Cardinality(Aged(entry)) + 1, Len(entry))

\* Mutant: one more try than the limit.
ThrottledLater(hits, a) == Len(Fresh(hits[a])) > Limit

\* retryAfterMs(a) > 0.
Throttled(hits, a) == Len(Fresh(hits[a])) >= Limit

Known(hits) == {a \in DOMAIN hits : hits[a] # <<>>}

\* When the last failure of an entry was.
LastAge(entry) == entry[Len(entry)]

\* Mutant: the address that failed longest ago is kept, another one goes.
ColdestHottest(hits, a) ==
  {b \in Known(hits) \ {a} : \A c \in Known(hits) \ {a} : LastAge(hits[b]) <= LastAge(hits[c])}

\* Who is forgotten to make room for a, which has just failed.
Coldest(hits, a) ==
  {b \in Known(hits) \ {a} : \A c \in Known(hits) \ {a} : LastAge(hits[b]) >= LastAge(hits[c])}

\* record(a), with the sweep it runs when the table is too large: everything
\* that has aged out goes, and then the coldest entry if it is still too large.
Recorded(hits, a) ==
  LET added == [hits EXCEPT ![a] = Append(Fresh(@), 0)]
      swept == [b \in DOMAIN hits |-> Fresh(added[b])]
      thinned == IF Cardinality(Known(swept)) <= MaxKeys THEN {swept}
                 ELSE {[swept EXCEPT ![b] = <<>>] : b \in Coldest(swept, a)}
  IN  IF Cardinality(Known(added)) <= MaxKeys THEN {added} ELSE thinned

\* clear(a).
Cleared(hits, a) == [hits EXCEPT ![a] = <<>>]

\* A tick of the clock, seen from an entry.
Older(entry) == [i \in DOMAIN entry |-> IF entry[i] < Window THEN entry[i] + 1 ELSE Window]
=============================================================================
