-------------------------------- MODULE CDN ---------------------------------
(***************************************************************************)
(* The CDN server (cdn/cdn.go) as one service uses it: the coordinator     *)
(* creates a bucket for a round, the last mixer puts the round's mailboxes *)
(* into it, and a ticker deletes what has expired.  The database survives  *)
(* a restart; the map of uploaders is only in memory.                      *)
(*                                                                         *)
(* A bucket is named by its round, in decimal.  The requests' HTTP forms   *)
(* are left out: a request that is refused changes nothing.                *)
(***************************************************************************)
EXTENDS Naturals

CONSTANTS
    TTL,       \* defaultTTL, in seconds of the model's clock
    MaxTime    \* bound: the clock goes from 0 to MaxTime

ASSUME CDNAssumption == TTL \in Nat /\ MaxTime \in Nat

VARIABLES
    uploaders,  \* Server.uploaders: the key that may put into each bucket
    stored,     \* the database: the mailboxes of each round
    expires,    \* the database's Expires bucket: from a second to a round
    clock,      \* time.Now(), in seconds
    putAt       \* history: when each round was put

cdnVars == <<uploaders, stored, expires, clock, putAt>>

\* f, with x mapped to y.
With(f, x, y) == [z \in DOMAIN f \cup {x} |-> IF z = x THEN y ELSE f[z]]

CDNInit ==
    /\ uploaders = << >>
    /\ stored = << >>
    /\ expires = << >>
    /\ clock = 0
    /\ putAt = << >>

\* newBucket, for a bucket that does not exist.
NewBucket(r, key) ==
    /\ r \notin DOMAIN uploaders
    /\ uploaders' = With(uploaders, r, key)
    /\ UNCHANGED <<stored, expires, clock, putAt>>

\* The request is the uploader's.
MayPut(r, key) == r \in DOMAIN uploaders /\ uploaders[r] = key

\* put.  The Expires entry of another put in the same second is overwritten.
Put(r, key, mailboxes) ==
    /\ MayPut(r, key)
    /\ stored' = With(stored, r, mailboxes)
    /\ expires' = With(expires, clock + TTL, r)
    /\ putAt' = With(putAt, r, clock)
    /\ UNCHANGED <<uploaders, clock>>

\* The decimal form of r is a prefix of that of q; rounds have at most ten digits.
DecimalPrefix(r, q) == \E k \in 0 .. 9 : q \div 10^k = r

\* Mutant of Expired: what was stored up to now goes, whatever its age.
ExpiredTooSoon(r) == r \in DOMAIN putAt /\ putAt[r] <= clock

\* What deleteExpired looks for: keys that begin with the round of an entry that
\* has expired.
Expired(r) == \E t \in DOMAIN expires : t <= clock /\ DecimalPrefix(expires[t], r)

\* deleteExpired.  It deletes while its cursor moves on, which may skip keys
\* (left).  The Expires entries themselves stay.
DeleteExpired(left) ==
    /\ \E r \in DOMAIN stored : Expired(r)
    /\ stored' = [r \in {q \in DOMAIN stored : Expired(q) => q \in left} |-> stored[r]]
    /\ UNCHANGED <<uploaders, expires, clock, putAt>>

Tick ==
    /\ clock < MaxTime
    /\ clock' = clock + 1
    /\ UNCHANGED <<uploaders, stored, expires, putAt>>

\* The server is restarted: New opens the database and makes an empty map.
CDNRestart ==
    /\ uploaders # << >>
    /\ uploaders' = << >>
    /\ UNCHANGED <<stored, expires, clock, putAt>>
=============================================================================
