------------------------------ MODULE Sessions ------------------------------
(* AuthService and AuthRepository: the RefreshToken table with its families *)
(* of rotated tokens, and the calls that refresh, log out and revoke, one   *)
(* step for each statement they wait for.                                   *)
(*                                                                          *)
(* A token is its place in the table.  The family of a login is named by    *)
(* the token it issued, so families are the tokens t with family t.  Row    *)
(* locks follow from the calls: who is at "insert" holds its old token.     *)
EXTENDS Integers, Sequences

CONSTANTS
  Users,
  Calls,      \* the calls the API serves at one time
  Ttl,        \* REFRESH_TOKEN_EXPIRY_DAYS
  MaxNow,     \* bound on the clock
  MaxTokens   \* bound on the table

ASSUME SessionBounds == Ttl \in Nat /\ MaxNow \in Nat /\ MaxTokens \in Nat

VARIABLES
  now,
  tokens,     \* the committed rows of RefreshToken: what never changes in one,
  revoked,    \* those that are revoked,
  replaced,   \* and those that have a replacedByHash
  call,       \* where each call is
  ended,      \* history: the families that a revocation was committed for
  overlapped, \* history: those that were refreshed while one was under way
  forked      \* history: those of which one token was refreshed twice at once

past     == <<ended, overlapped, forked>>
table    == <<tokens, revoked, replaced>>
sessions == <<now, table, call, past>>

NoToken == 0
Ids     == 1 .. Len(tokens)
FamilyOf(t) == tokens[t].family
LiveIds == Ids \ revoked
OfFamily(f) == {t \in Ids : FamilyOf(t) = f}
OfUser(u)   == {t \in Ids : tokens[t].user = u}
Families    == {FamilyOf(t) : t \in Ids}

Token == [user : Users, family : 1 .. MaxTokens, absolute : Nat]

Answers  == {"refreshed", "done", "refused", "failed"}
Stations == Answers \cup {"idle", "refresh", "rotate", "insert", "expired",
                          "reuse", "logout", "sign-out", "revoking"}

(* A call has the token it was sent with or, once refreshed, the new one;   *)
(* the families and rows its revocation is about; and its answer after it.  *)
Call == [at : Stations, token : 0 .. MaxTokens, families : SUBSET (1 .. MaxTokens),
         rows : SUBSET (1 .. MaxTokens), answer : Answers]

Begun(place, t) == [at |-> place, token |-> t, families |-> {}, rows |-> {}, answer |-> "failed"]
Idle == Begun("idle", NoToken)

Init ==
  /\ now = 0
  /\ tokens = <<>> /\ revoked = {} /\ replaced = {}
  /\ call = [c \in Calls |-> Idle]
  /\ ended = {} /\ overlapped = {} /\ forked = {}

Goes(c, place)  == call' = [call EXCEPT ![c].at = place]
Rotating(f)     == {c \in Calls : call[c].at \in {"rotate", "insert"} /\ FamilyOf(call[c].token) = f}
Revoking(f)     == {c \in Calls : call[c].at = "revoking" /\ f \in call[c].families}
Locked(t)       == \E c \in Calls : call[c].at = "insert" /\ call[c].token = t

FirstToken(u, t) == [user |-> u, family |-> t, absolute |-> now + Ttl]

(* issueTokenPair, in one statement, for a user whose password was right.   *)
Login(u) ==
  /\ Len(tokens) < MaxTokens
  /\ tokens' = Append(tokens, FirstToken(u, Len(tokens) + 1))
  /\ UNCHANGED <<now, revoked, replaced, call, past>>

(* A request to refresh or log out arrives with a cookie or without one.    *)
Start(c, place, t) ==
  /\ call[c].at = "idle"
  /\ call' = [call EXCEPT ![c] = Begun(place, t)]

(* A refresh that found its token valid goes on to rotate it.               *)
Accept(c) ==
  LET t == call[c].token
      f == FamilyOf(t)
  IN /\ Goes(c, "rotate")
     /\ overlapped' = IF Revoking(f) = {} THEN overlapped ELSE overlapped \cup {f}
     /\ forked' = IF \E d \in Rotating(f) : call[d].token = t THEN forked \cup {f} ELSE forked
     /\ UNCHANGED ended

(* Faulty variant of FindRefresh: a revoked token is as good as a live one. *)
FindAnyToken(c) ==
  /\ call[c].at = "refresh"
  /\ \/ call[c].token \notin Ids /\ Goes(c, "refused") /\ UNCHANGED past
     \/ call[c].token \in Ids /\ Accept(c)
  /\ UNCHANGED <<now, table>>

(* What refreshToken does with the row it finds.                            *)
FindRefresh(c) ==
  /\ call[c].at = "refresh"
  /\ \/ call[c].token \notin Ids /\ Goes(c, "refused") /\ UNCHANGED past
     \/ call[c].token \in Ids \cap revoked /\ Goes(c, "reuse") /\ UNCHANGED past
     \/ /\ call[c].token \in LiveIds
        /\ \/ tokens[call[c].token].absolute < now /\ Goes(c, "expired") /\ UNCHANGED past
           \/ tokens[call[c].token].absolute >= now /\ Accept(c)
  /\ UNCHANGED <<now, table>>

(* rotateRefreshToken: the update of the old row waits for the lock on it,  *)
(* whatever has happened to the row meanwhile.                              *)
UpdateOld(c) ==
  /\ call[c].at = "rotate" /\ ~Locked(call[c].token)
  /\ Goes(c, "insert")
  /\ UNCHANGED <<now, table, past>>

(* Faulty variant of Superseded: the old row is not updated.               *)
NotSuperseded(t) == UNCHANGED <<revoked, replaced>>

Superseded(t) == revoked' = revoked \cup {t} /\ replaced' = replaced \cup {t}

(* Faulty variant of NextToken: the new row gets a lifetime of its own.     *)
SlidingToken(t) == [tokens[t] EXCEPT !.absolute = now + Ttl]

NextToken(t) == tokens[t]

(* The insert and the commit, whose acknowledgement may get lost.           *)
InsertNew(c, answer) ==
  /\ call[c].at = "insert" /\ Len(tokens) < MaxTokens
  /\ tokens' = Append(tokens, NextToken(call[c].token))
  /\ Superseded(call[c].token)
  /\ call' = [call EXCEPT ![c] = Begun(answer, Len(tokens) + 1)]
  /\ UNCHANGED <<now, past>>

(* revokeRefreshToken of a token past its absolute expiry.                  *)
RevokeExpired(c) ==
  /\ call[c].at = "expired" /\ ~Locked(call[c].token)
  /\ revoked' = revoked \cup {call[c].token}
  /\ Goes(c, "refused")
  /\ UNCHANGED <<now, tokens, replaced, past>>

(* Faulty variant of FindLogout: it signs out whatever token it is given.   *)
FindLogoutUnchecked(c) ==
  /\ call[c].at = "logout"
  /\ Goes(c, IF call[c].token \in Ids => call[c].token \notin revoked THEN "sign-out" ELSE "done")
  /\ UNCHANGED <<now, table, past>>

FindLogout(c) ==
  /\ call[c].at = "logout"
  /\ Goes(c, IF call[c].token \in LiveIds THEN "sign-out" ELSE "done")
  /\ UNCHANGED <<now, table, past>>

-----------------------------------------------------------------------------
(* A revocation is one statement: it sees the rows committed when it begins *)
(* and waits for those that are locked.                                     *)

Snapshot(c, F, rows, answer) ==
  /\ call' = [call EXCEPT ![c] = [at |-> "revoking", token |-> call[c].token, families |-> F,
                                  rows |-> rows, answer |-> answer]]
  /\ overlapped' = overlapped \cup {f \in F : Rotating(f) # {}}
  /\ UNCHANGED <<now, table, ended, forked>>

(* revokeFamilyByFamilyId, of a logout or of a token that was used again.   *)
RevokeFamily(c) ==
  /\ call[c].at \in {"reuse", "sign-out"}
  /\ LET f == FamilyOf(call[c].token)
     IN Snapshot(c, {f}, OfFamily(f) \ revoked,
                 IF call[c].at = "reuse" THEN "refused" ELSE "done")

(* revokeAllRefreshTokensForUser.                                           *)
RevokeUser(c, u) ==
  /\ call[c].at = "idle"
  /\ Snapshot(c, {FamilyOf(t) : t \in OfUser(u)}, OfUser(u), "done")

(* Faulty variant of Revoked: only the row that was presented.              *)
RevokedOne(c) == {call[c].token}

Revoked(c) == call[c].rows

CommitRevocation(c, answer) ==
  /\ call[c].at = "revoking" /\ ~\E t \in call[c].rows : Locked(t)
  /\ revoked' = revoked \cup Revoked(c)
  /\ Goes(c, answer)
  /\ ended' = ended \cup call[c].families
  /\ UNCHANGED <<now, tokens, replaced, overlapped, forked>>

(* A statement fails, or its transaction times out and is rolled back.      *)
Fails(c) ==
  /\ call[c].at \in Stations \ (Answers \cup {"idle"})
  /\ Goes(c, "failed")
  /\ UNCHANGED <<now, table, past>>

Answered(c) ==
  /\ call[c].at \in Answers
  /\ call' = [call EXCEPT ![c] = Idle]

Tick ==
  /\ now < MaxNow
  /\ now' = now + 1
  /\ UNCHANGED <<table, call, past>>

Serve(c) ==
  \/ FindRefresh(c) \/ UpdateOld(c) \/ InsertNew(c, "refreshed") \/ RevokeExpired(c)
  \/ FindLogout(c) \/ RevokeFamily(c) \/ CommitRevocation(c, call[c].answer)

ServeFails(c) == Fails(c) \/ InsertNew(c, "failed") \/ CommitRevocation(c, "failed")

(* Clients that send any token they were ever given.                        *)
AnyRequest(c) ==
  /\ \/ \E t \in Ids \cup {NoToken}, place \in {"refresh", "logout"} : Start(c, place, t)
     \/ Answered(c)
  /\ UNCHANGED <<now, table, past>>

SessionsNext ==
  \/ Tick
  \/ \E u \in Users : Login(u)
  \/ \E c \in Calls :
       \/ AnyRequest(c) \/ Serve(c) \/ ServeFails(c)
       \/ \E u \in Users : RevokeUser(c, u)

SessionsSpec == Init /\ [][SessionsNext]_sessions

-----------------------------------------------------------------------------
SessionsTypeOK ==
  /\ now \in Nat
  /\ tokens \in Seq(Token) /\ Len(tokens) <= MaxTokens
  /\ revoked \subseteq Ids /\ replaced \subseteq revoked
  /\ call \in [Calls -> Call]
  /\ \A c \in Calls :
       call[c].at \in {"rotate", "insert", "expired", "reuse", "sign-out"} => call[c].token \in Ids

(* A family has one token that can still be refreshed, unless two refreshes *)
(* of one token were under way at once: both rotate it, and the family      *)
(* forks (auth.service.ts:146).                                             *)
OneLiveToken ==
  \A f \in Families \ forked : \A s, t \in OfFamily(f) \ revoked : s = t

(* A logout, a reuse detection and a logout of all devices end the family   *)
(* for good, unless a refresh that had found its token valid was under way  *)
(* at the same time: its new token escapes (auth.repository.ts:77).         *)
EndedStaysEnded ==
  \A f \in ended \ overlapped : OfFamily(f) \subseteq revoked

(* No rotation makes a session longer: every token of a family expires when *)
(* the token of its login does.                                             *)
FamilyKeepsExpiry ==
  \A t \in Ids : tokens[t].absolute = tokens[FamilyOf(t)].absolute
=============================================================================
