----------------------------- MODULE RateLimit -----------------------------
(* RateLimitGuard: the sliding window that the processes of the API keep in *)
(* one sorted set of Redis for each identity and route.                     *)
EXTENDS RequestClock, Sequences, FiniteSets

CONSTANTS
  Identities,   \* the API keys that requests carry
  Limit,
  Window,
  Slack         \* how far the time a process puts on a request may be behind
                \* the time at which Redis runs the script for it

ASSUME WindowAssumption == Limit \in Nat /\ Window \in Nat /\ Slack \in 0 .. Window

VARIABLES
  admissions,   \* history: the requests let in
  limiter       \* those that are members of the sorted sets

limits == <<admissions, limiter>>

Admission  == [identity : Identities, score : Nat, at : Nat]
Admissions == 1 .. Len(admissions)

RateLimitInit == admissions = <<>> /\ limiter = {}

MembersOf(k) == {i \in limiter : admissions[i].identity = k}

(* Date.now() of a process whose clock is behind or who waits for Redis.    *)
Readings == {t \in now - Slack .. now : t >= 0}

(* Faulty variant of Outside: it forgets a request one tick too early.      *)
OutsideTooSoon(i, t) == admissions[i].score <= t - Window + 1

(* ZREMRANGEBYSCORE                                                         *)
Outside(i, t) == admissions[i].score <= t - Window

Kept(k, t) == {i \in limiter : admissions[i].identity = k => ~Outside(i, t)}

HasRoom(k, t) == Cardinality(Kept(k, t) \cap MembersOf(k)) < Limit

Admit(k, t) ==
  /\ HasRoom(k, t)
  /\ admissions' = Append(admissions, [identity |-> k, score |-> t, at |-> now])
  /\ limiter' = Kept(k, t) \cup {Len(admissions) + 1}

TooMany(k, t) ==
  /\ ~HasRoom(k, t)
  /\ limiter' = Kept(k, t)
  /\ UNCHANGED admissions

(* A tick later: PEXPIRE deletes a set Window ticks after it last grew.     *)
SetsExpire ==
  /\ limiter' = {i \in limiter :
                   \E j \in Admissions : /\ admissions[j].identity = admissions[i].identity
                                         /\ admissions[j].at > now + 1 - Window}
  /\ UNCHANGED admissions

RateLimitNext ==
  \/ Passes /\ SetsExpire
  \/ \E k \in Identities, t \in Readings : (Admit(k, t) \/ TooMany(k, t)) /\ UNCHANGED now

RateLimitSpec == now = 0 /\ RateLimitInit /\ [][RateLimitNext]_<<now, limits>>

-----------------------------------------------------------------------------
RateLimitTypeOK ==
  /\ now \in Nat
  /\ admissions \in Seq(Admission)
  /\ limiter \subseteq Admissions

(* However the clocks of the processes differ, no more than Limit requests  *)
(* of an identity are let in while a window, less the slack, passes         *)
(* (rate-limit.guard.ts:33).                                                *)
RateHolds ==
  \A k \in Identities, t \in 0 .. now :
    Cardinality({i \in Admissions : /\ admissions[i].identity = k
                                    /\ t - (Window - Slack) < admissions[i].at
                                    /\ admissions[i].at <= t}) <= Limit
=============================================================================
