----------------------------- MODULE RateLimiter -----------------------------
(***************************************************************************)
(* UpstashSlidingWindowRateLimiter for one address and route, and the      *)
(* AuthService calls it admits: every request stamps itself with the time, *)
(* sends five commands about one sorted set, and is admitted if the set    *)
(* then has no more members than the limit.  A pipeline is not a           *)
(* transaction: the commands of two requests may alternate.  A member is   *)
(* the stamp written as text, so equal stamps are one member.              *)
(***************************************************************************)
EXTENDS Integers, FiniteSets

CONSTANTS Calls,      \* requests from the address
          Limit,
          Window,
          MaxStall,   \* what may pass between the stamp of a request and its commands
          MaxTime     \* bound

ASSUME LimiterAssumption ==
    /\ IsFiniteSet(Calls)
    /\ Limit \in Nat \ {0} /\ MaxStall \in Nat /\ MaxTime \in Nat
    /\ Window \in Nat /\ MaxStall < Window

VARIABLES time,       \* the clock the workers and Redis share
          members,    \* the sorted set: its members are their scores
          ttl_ends,   \* when Redis drops the key, 0 if it has no expiry
          limiter,    \* what each request is doing
          disturbed   \* history: two stamps were equal, or the key went away between the
                      \* commands of a request

limiter_vars == <<time, members, ttl_ends, limiter, disturbed>>

Started == {"stamped", "removed", "added", "counted"}
NotSent == [pc |-> "idle", stamp |-> 0, count |-> 0, oldest |-> 0]

LimiterInit == /\ time = 1 /\ members = {} /\ ttl_ends = 0
               /\ limiter = [c \in Calls |-> NotSent]
               /\ disturbed = FALSE

-----------------------------------------------------------------------------
Stamp(c) ==
    /\ limiter[c].pc = "idle"
    /\ limiter' = [limiter EXCEPT ![c].pc = "stamped", ![c].stamp = time]
    /\ disturbed' = (disturbed \/ \E d \in Calls : limiter[d].stamp = time)
    /\ UNCHANGED <<time, members, ttl_ends>>

\* Mutant: the stamps of the window before are kept, too.
OutdatedTwice(stamp) == {s \in members : s <= stamp - 2 * Window}

Outdated(stamp) == {s \in members : s <= stamp - Window}

\* Redis drops a set with its last member, and the expiry goes with it.
RemoveOutdated(c) ==
    /\ limiter[c].pc = "stamped"
    /\ members' = members \ Outdated(limiter[c].stamp)
    /\ ttl_ends' = IF members' = {} THEN 0 ELSE ttl_ends
    /\ limiter' = [limiter EXCEPT ![c].pc = "removed"]
    /\ UNCHANGED <<time, disturbed>>

\* Mutant: what is counted is what was there before.
AddedLater(c) == members

WithOwn(c) == members \union {limiter[c].stamp}

Add(c) ==
    /\ limiter[c].pc = "removed"
    /\ members' = WithOwn(c)
    /\ limiter' = [limiter EXCEPT ![c].pc = "added"]
    /\ UNCHANGED <<time, ttl_ends, disturbed>>

\* ZCARD and ZRANGE.
Oldest == IF members = {} THEN 0 ELSE CHOOSE s \in members : \A m \in members : s <= m

CountMembers(c) ==
    /\ limiter[c].pc = "added"
    /\ limiter' = [limiter EXCEPT ![c].pc = "counted", ![c].count = Cardinality(members),
                                  ![c].oldest = Oldest]
    /\ UNCHANGED <<time, members, ttl_ends, disturbed>>

\* EXPIRE, and then the verdict; a key that is gone stays gone.
WithinLimit(count) == count <= Limit

Expire(c) ==
    /\ limiter[c].pc = "counted"
    /\ ttl_ends' = IF members = {} THEN 0 ELSE time + Window
    /\ limiter' = [limiter EXCEPT ![c].pc = IF WithinLimit(limiter[c].count) THEN "admitted"
                                            ELSE "refused"]
    /\ UNCHANGED <<time, members, disturbed>>

\* The connection to Redis fails: the request is answered with an error.
LimiterFails(c) ==
    /\ limiter[c].pc \in Started
    /\ limiter' = [limiter EXCEPT ![c].pc = "failed"]
    /\ UNCHANGED <<time, members, ttl_ends, disturbed>>

\* register and login do their work after _enforce_rate_limit.
MayServe(pc) == pc = "admitted"

ServeAuth(c) ==
    /\ MayServe(limiter[c].pc)
    /\ limiter' = [limiter EXCEPT ![c].pc = "served"]
    /\ UNCHANGED <<time, members, ttl_ends, disturbed>>

\* Time passes, for a request under way only so much; the key goes when its time has come.
Pass ==
    /\ time < MaxTime
    /\ \A c \in Calls : limiter[c].pc \in Started => time < limiter[c].stamp + MaxStall
    /\ time' = time + 1
    /\ IF ttl_ends # 0 /\ time + 1 >= ttl_ends
       THEN /\ members' = {} /\ ttl_ends' = 0
            /\ disturbed' = (disturbed \/ \E c \in Calls : limiter[c].pc \in {"added", "counted"})
       ELSE UNCHANGED <<members, ttl_ends, disturbed>>
    /\ UNCHANGED limiter

LimiterNext ==
    \/ \E c \in Calls : \/ Stamp(c) \/ RemoveOutdated(c) \/ Add(c) \/ CountMembers(c)
                        \/ Expire(c) \/ LimiterFails(c) \/ ServeAuth(c)
    \/ Pass

LimiterSpec == LimiterInit /\ [][LimiterNext]_limiter_vars

-----------------------------------------------------------------------------
In(pcs) == {c \in Calls : limiter[c].pc \in pcs}

\* In any window, shortened by the time a request may take to reach Redis, at most Limit
\* requests are admitted and worked on, however their commands alternate.
NoMoreThanTheLimit ==
    ~disturbed =>
        \A from \in 1..MaxTime :
            Cardinality({c \in In({"admitted", "served"}) :
                           limiter[c].stamp \in from..(from + Window - MaxStall - 1)}) <= Limit

\* The window slides and does not stick: a request is refused only if that many others
\* have asked within the window before it, or while it was under way.
RefusedForAReason ==
    \A c \in In({"refused"}) :
        Cardinality({d \in Calls \ {c} :
                       /\ limiter[d].stamp > limiter[c].stamp - Window
                       /\ limiter[d].stamp # 0}) >= Limit

\* The limit is kept from both sides.
LimitKept == NoMoreThanTheLimit /\ RefusedForAReason

\* Without any exception for equal stamps and a key that goes away.
LimitAlwaysHolds ==
    \A from \in 1..MaxTime :
        Cardinality({c \in In({"admitted", "served"}) :
                       limiter[c].stamp \in from..(from + Window - MaxStall - 1)}) <= Limit

\* The contract of RateLimiter: reset_at is "when the window next has room".
ResetHasRoom ==
    \A c \in In({"stamped"}), d \in In({"refused"}) :
        limiter[c].stamp >= limiter[d].oldest + Window /\ Calls = In({"stamped", "refused",
            "admitted", "served"}) => Cardinality(members \ Outdated(limiter[c].stamp)) < Limit

=============================================================================
