--------------------------- MODULE SessionsProofs --------------------------
(* Proofs about Sessions, for any number of users, calls, tokens and ticks. *)
EXTENDS Sessions, TLAPS

Rotates(c) == call[c].at \in {"rotate", "insert"}

(* Every row belongs to the login that its family is named by.              *)
RowsInv ==
  /\ \A t \in Ids : FamilyOf(t) \in Ids /\ FamilyOf(FamilyOf(t)) = FamilyOf(t)
  /\ \A t \in Ids : tokens[t].user = tokens[FamilyOf(t)].user

FamiliesInv ==
  /\ ended \subseteq Ids
  /\ \A c \in Calls : call[c].families \subseteq Ids /\ call[c].rows \subseteq Ids

TypeInv == SessionsTypeOK /\ RowsInv /\ FamiliesInv /\ FamilyKeepsExpiry

-----------------------------------------------------------------------------
(* The two ways in which the table grows.                                   *)

LEMMA AppendedRow ==
  ASSUME tokens \in Seq(Token), NEW x \in Token, tokens' = Append(tokens, x)
  PROVE  /\ tokens' \in Seq(Token) /\ Len(tokens') = Len(tokens) + 1
         /\ Ids' = Ids \cup {Len(tokens) + 1}
         /\ Len(tokens) + 1 \notin Ids
         /\ \A t \in Ids : tokens'[t] = tokens[t]
         /\ tokens'[Len(tokens) + 1] = x
BY DEF Ids

LEMMA LoginRow ==
  ASSUME SessionsTypeOK, SessionBounds, NEW u \in Users, Login(u)
  PROVE  FirstToken(u, Len(tokens) + 1) \in Token
BY DEF SessionsTypeOK, SessionBounds, Login, FirstToken, Token

LEMMA RotatedRow ==
  ASSUME SessionsTypeOK, NEW c \in Calls, NEW answer, InsertNew(c, answer)
  PROVE  call[c].token \in Ids /\ tokens[call[c].token] \in Token
BY DEF SessionsTypeOK, InsertNew, Ids

(* The rows that a family has keep what they say of it.                     *)
LEMMA GrownRows ==
  ASSUME SessionsTypeOK, RowsInv, FamilyKeepsExpiry,
         NEW x \in Token, tokens' = Append(tokens, x),
         \/ x.family = Len(tokens) + 1
         \/ \E t \in Ids : x = tokens[t]
  PROVE  RowsInv' /\ FamilyKeepsExpiry'
<1>1. tokens \in Seq(Token) /\ Len(tokens) \in Nat
  BY DEF SessionsTypeOK
<1>2. /\ Ids' = Ids \cup {Len(tokens) + 1} /\ Len(tokens) + 1 \notin Ids
      /\ \A t \in Ids : tokens'[t] = tokens[t]
      /\ tokens'[Len(tokens) + 1] = x
  BY <1>1, AppendedRow
<1>. DEFINE Rooted == /\ x.family \in Ids' /\ tokens'[x.family].family = x.family
                      /\ tokens'[x.family].user = x.user
                      /\ tokens'[x.family].absolute = x.absolute
<1>3. Rooted
  <2>1. CASE x.family = Len(tokens) + 1
    BY <1>2, <2>1
  <2>2. ASSUME NEW t \in Ids, x = tokens[t]
        PROVE  Rooted
    <3>1. x.family \in Ids /\ tokens[x.family].family = x.family
      BY <2>2 DEF RowsInv, FamilyOf
    <3>2. tokens[x.family].user = x.user /\ tokens[x.family].absolute = x.absolute
      BY <2>2 DEF RowsInv, FamilyKeepsExpiry, FamilyOf
    <3>. QED
      BY <1>2, <3>1, <3>2
  <2>. QED
    BY <2>1, <2>2
<1>4. ASSUME NEW t \in Ids'
      PROVE  /\ tokens'[t].family \in Ids' /\ tokens'[tokens'[t].family].family = tokens'[t].family
             /\ tokens'[t].user = tokens'[tokens'[t].family].user
             /\ tokens'[t].absolute = tokens'[tokens'[t].family].absolute
  <2>1. CASE t = Len(tokens) + 1
    BY <1>2, <1>3, <2>1
  <2>2. CASE t \in Ids
    <3>1. /\ tokens[t].family \in Ids /\ tokens[tokens[t].family].family = tokens[t].family
          /\ tokens[t].user = tokens[tokens[t].family].user
          /\ tokens[t].absolute = tokens[tokens[t].family].absolute
      BY <2>2 DEF RowsInv, FamilyKeepsExpiry, FamilyOf
    <3>. QED
      BY <1>2, <2>2, <3>1
  <2>. QED
    BY <1>2, <2>1, <2>2
<1>. QED
  BY <1>4 DEF RowsInv, FamilyOf, FamilyKeepsExpiry

LEMMA SameRows ==
  ASSUME UNCHANGED tokens, RowsInv, FamilyKeepsExpiry
  PROVE  RowsInv' /\ FamilyKeepsExpiry' /\ Ids' = Ids
BY DEF RowsInv, FamilyKeepsExpiry, FamilyOf, Ids

(* A step that only moves a call to another place.                          *)
LEMMA MovedCall ==
  ASSUME TypeInv, NEW c \in Calls, NEW place \in Stations, Goes(c, place),
         UNCHANGED <<now, table, ended>>,
         place \in {"rotate", "insert", "expired", "reuse", "sign-out"} => call[c].token \in Ids
  PROVE  TypeInv'
<1>1. /\ call' \in [Calls -> Call]
      /\ \A d \in Calls : /\ call'[d].token = call[d].token
                          /\ call'[d].families = call[d].families /\ call'[d].rows = call[d].rows
                          /\ d # c => call'[d] = call[d]
      /\ call'[c].at = place
  BY DEF TypeInv, SessionsTypeOK, Goes, Call
<1>2. RowsInv' /\ FamilyKeepsExpiry' /\ Ids' = Ids
  BY SameRows DEF TypeInv, table
<1>3. SessionsTypeOK'
  BY <1>1, <1>2 DEF TypeInv, SessionsTypeOK, table
<1>4. FamiliesInv'
  BY <1>1, <1>2 DEF TypeInv, FamiliesInv
<1>. QED
  BY <1>2, <1>3, <1>4 DEF TypeInv

LEMMA SnapshotTyped ==
  ASSUME TypeInv, NEW c \in Calls, NEW F \in SUBSET Ids, NEW rows \in SUBSET Ids,
         NEW answer \in Answers, Snapshot(c, F, rows, answer)
  PROVE  TypeInv'
<1>1. Ids \subseteq 1 .. MaxTokens
  BY SessionBounds DEF TypeInv, SessionsTypeOK, Ids
<1>2. [at |-> "revoking", token |-> call[c].token, families |-> F, rows |-> rows,
        answer |-> answer] \in Call
  BY <1>1 DEF TypeInv, SessionsTypeOK, Call, Stations
<1>3. /\ call' \in [Calls -> Call]
      /\ \A d \in Calls : d # c => call'[d] = call[d]
      /\ call'[c].at = "revoking" /\ call'[c].families = F /\ call'[c].rows = rows
  BY <1>2 DEF TypeInv, SessionsTypeOK, Snapshot
<1>4. RowsInv' /\ FamilyKeepsExpiry' /\ Ids' = Ids
  BY SameRows DEF TypeInv, table, Snapshot
<1>5. SessionsTypeOK'
  BY <1>3, <1>4 DEF TypeInv, SessionsTypeOK, table, Snapshot
<1>6. FamiliesInv'
  BY <1>3, <1>4 DEF TypeInv, FamiliesInv, Snapshot
<1>. QED
  BY <1>4, <1>5, <1>6 DEF TypeInv

LEMMA StartTyped ==
  ASSUME TypeInv, NEW c \in Calls, AnyRequest(c)
  PROVE  TypeInv'
<1>1. \E t \in 0 .. MaxTokens, place \in {"refresh", "logout", "idle"} :
        call' = [call EXCEPT ![c] = Begun(place, t)]
  <2>1. CASE Answered(c)
    <3>1. 0 \in 0 .. MaxTokens /\ "idle" \in {"refresh", "logout", "idle"}
      BY SessionBounds
    <3>2. call' = [call EXCEPT ![c] = Begun("idle", 0)]
      BY <2>1 DEF Answered, Idle, NoToken
    <3>. QED
      BY <3>1, <3>2
  <2>2. CASE \E t \in Ids \cup {NoToken}, place \in {"refresh", "logout"} : Start(c, place, t)
    <3>1. Ids \cup {NoToken} \subseteq 0 .. MaxTokens
      BY SessionBounds DEF TypeInv, SessionsTypeOK, Ids, NoToken
    <3>. QED
      BY <2>2, <3>1 DEF Start
  <2>. QED
    BY <2>1, <2>2 DEF AnyRequest
<1>2. PICK t \in 0 .. MaxTokens, place \in {"refresh", "logout", "idle"} :
        call' = [call EXCEPT ![c] = Begun(place, t)]
  BY <1>1
<1>3. /\ call' \in [Calls -> Call]
      /\ \A d \in Calls : d # c => call'[d] = call[d]
      /\ call'[c].at = place /\ call'[c].families = {} /\ call'[c].rows = {}
  BY <1>2 DEF TypeInv, SessionsTypeOK, Call, Stations, Begun, Answers
<1>4. RowsInv' /\ FamilyKeepsExpiry' /\ Ids' = Ids
  BY SameRows DEF TypeInv, table, AnyRequest
<1>5. SessionsTypeOK'
  BY <1>3, <1>4 DEF TypeInv, SessionsTypeOK, table, AnyRequest
<1>6. FamiliesInv'
  BY <1>3, <1>4 DEF TypeInv, FamiliesInv, AnyRequest, past
<1>. QED
  BY <1>4, <1>5, <1>6 DEF TypeInv

LEMMA LoginTyped ==
  ASSUME TypeInv, NEW u \in Users, Login(u)
  PROVE  TypeInv'
<1>. DEFINE x == FirstToken(u, Len(tokens) + 1)
<1>1. tokens \in Seq(Token) /\ Len(tokens) \in Nat /\ tokens' = Append(tokens, x)
  BY DEF TypeInv, SessionsTypeOK, Login
<1>2. x \in Token /\ x.family = Len(tokens) + 1
  BY SessionBounds, LoginRow DEF TypeInv, FirstToken
<1>. HIDE DEF x
<1>3. /\ tokens' \in Seq(Token) /\ Len(tokens') = Len(tokens) + 1
      /\ Ids' = Ids \cup {Len(tokens) + 1}
  BY <1>1, <1>2, AppendedRow
<1>4. RowsInv' /\ FamilyKeepsExpiry'
  BY <1>1, <1>2, GrownRows DEF TypeInv
<1>5. Len(tokens') <= MaxTokens
  BY <1>1, <1>3, SessionBounds DEF Login
<1>6. SessionsTypeOK'
  BY <1>3, <1>5 DEF TypeInv, SessionsTypeOK, Login
<1>7. FamiliesInv'
  BY <1>3 DEF TypeInv, FamiliesInv, Login, past
<1>. QED
  BY <1>4, <1>6, <1>7 DEF TypeInv

LEMMA InsertTyped ==
  ASSUME TypeInv, NEW c \in Calls, NEW answer \in Answers, InsertNew(c, answer)
  PROVE  TypeInv'
<1>. DEFINE old == call[c].token
            new == Len(tokens) + 1
<1>1. /\ tokens \in Seq(Token) /\ Len(tokens) \in Nat /\ tokens' = Append(tokens, tokens[old])
      /\ revoked' = revoked \cup {old} /\ replaced' = replaced \cup {old}
  BY DEF TypeInv, SessionsTypeOK, InsertNew, NextToken, Superseded
<1>2. old \in Ids /\ tokens[old] \in Token
  BY RotatedRow DEF TypeInv
<1>3. /\ tokens' \in Seq(Token) /\ Len(tokens') = new /\ Ids' = Ids \cup {new}
  BY <1>1, <1>2, AppendedRow
<1>4. RowsInv' /\ FamilyKeepsExpiry'
  BY <1>1, <1>2, GrownRows DEF TypeInv
<1>5. new \in 1 .. MaxTokens /\ Len(tokens') <= MaxTokens
  BY <1>1, <1>3, SessionBounds DEF InsertNew
<1>6. Begun(answer, new) \in Call
  BY <1>5, SessionBounds DEF Begun, Call, Stations, Answers
<1>7. /\ call' \in [Calls -> Call]
      /\ \A d \in Calls : d # c => call'[d] = call[d]
      /\ call'[c].at = answer /\ call'[c].families = {} /\ call'[c].rows = {}
  BY <1>6 DEF TypeInv, SessionsTypeOK, InsertNew, Begun
<1>8. SessionsTypeOK'
  BY <1>1, <1>2, <1>3, <1>5, <1>7 DEF TypeInv, SessionsTypeOK, InsertNew, Answers
<1>9. FamiliesInv'
  BY <1>3, <1>7 DEF TypeInv, FamiliesInv, InsertNew, past
<1>. QED
  BY <1>4, <1>8, <1>9 DEF TypeInv

LEMMA RevocationTyped ==
  ASSUME TypeInv, NEW c \in Calls, NEW answer \in Answers,
         RevokeExpired(c) \/ CommitRevocation(c, answer)
  PROVE  TypeInv'
<1>1. PICK place \in Answers : Goes(c, place)
  BY DEF RevokeExpired, CommitRevocation, Answers
<1>2. /\ call' \in [Calls -> Call]
      /\ \A d \in Calls : /\ call'[d].families = call[d].families /\ call'[d].rows = call[d].rows
                          /\ d # c => call'[d] = call[d]
      /\ call'[c].at = place
  BY <1>1 DEF TypeInv, SessionsTypeOK, Goes, Call, Stations
<1>3. UNCHANGED <<now, tokens, replaced>>
  BY DEF RevokeExpired, CommitRevocation
<1>4. revoked \subseteq revoked' /\ revoked' \subseteq Ids /\ ended' \subseteq Ids
  BY DEF TypeInv, SessionsTypeOK, FamiliesInv, RevokeExpired, CommitRevocation, Revoked, past
<1>5. RowsInv' /\ FamilyKeepsExpiry' /\ Ids' = Ids
  BY <1>3, SameRows DEF TypeInv
<1>6. SessionsTypeOK'
  BY <1>2, <1>3, <1>4, <1>5 DEF TypeInv, SessionsTypeOK, Answers
<1>7. FamiliesInv'
  BY <1>2, <1>4, <1>5 DEF TypeInv, FamiliesInv
<1>. QED
  BY <1>5, <1>6, <1>7 DEF TypeInv

LEMMA TypeStep ==
  ASSUME TypeInv, [SessionsNext]_sessions
  PROVE  TypeInv'
<1>1. CASE Tick \/ UNCHANGED sessions
  <2>1. now' \in Nat /\ UNCHANGED <<table, call, past>>
    BY <1>1 DEF Tick, sessions, TypeInv, SessionsTypeOK
  <2>2. RowsInv' /\ FamilyKeepsExpiry' /\ Ids' = Ids
    BY <2>1, SameRows DEF TypeInv, table
  <2>. QED
    BY <2>1, <2>2 DEF TypeInv, SessionsTypeOK, FamiliesInv, table, past
<1>2. CASE \E u \in Users : Login(u)
  BY <1>2, LoginTyped
<1>3. ASSUME NEW c \in Calls, AnyRequest(c)
      PROVE  TypeInv'
  BY <1>3, StartTyped
<1>4. ASSUME NEW c \in Calls, FindRefresh(c)
      PROVE  TypeInv'
  <2>1. UNCHANGED <<now, table, ended>>
    BY <1>4 DEF FindRefresh, Accept, past
  <2>2. CASE Goes(c, "refused")
    BY <2>1, <2>2, MovedCall DEF Stations, Answers
  <2>3. ASSUME call[c].token \in Ids, NEW place \in {"reuse", "expired", "rotate"}, Goes(c, place)
        PROVE  TypeInv'
    <3>1. place \in Stations
      BY DEF Stations
    <3>. QED
      BY <2>1, <2>3, <3>1, MovedCall
  <2>. QED
    BY <1>4, <2>2, <2>3 DEF FindRefresh, Accept, LiveIds
<1>5. ASSUME NEW c \in Calls, UpdateOld(c) \/ FindLogout(c) \/ Fails(c)
      PROVE  TypeInv'
  <2>. USE DEF Stations, Answers, LiveIds
  <2>1. \E place \in Stations : /\ Goes(c, place)
                                /\ place \in {"rotate", "insert", "expired", "reuse", "sign-out"}
                                     => call[c].token \in Ids
    BY <1>5 DEF UpdateOld, FindLogout, Fails, TypeInv, SessionsTypeOK
  <2>2. UNCHANGED <<now, table, ended>>
    BY <1>5 DEF UpdateOld, FindLogout, Fails, past
  <2>. QED
    BY <2>1, <2>2, MovedCall
<1>6. ASSUME NEW c \in Calls, InsertNew(c, "refreshed") \/ InsertNew(c, "failed")
      PROVE  TypeInv'
  BY <1>6, InsertTyped DEF Answers
<1>7. ASSUME NEW c \in Calls, \/ RevokeExpired(c)
                             \/ CommitRevocation(c, call[c].answer)
                             \/ CommitRevocation(c, "failed")
      PROVE  TypeInv'
  <2>1. call[c].answer \in Answers /\ "failed" \in Answers
    BY DEF TypeInv, SessionsTypeOK, Call, Answers
  <2>. QED
    BY <1>7, <2>1, RevocationTyped
<1>8. ASSUME NEW c \in Calls, RevokeFamily(c)
      PROVE  TypeInv'
  <2>1. call[c].token \in Ids
    BY <1>8 DEF RevokeFamily, TypeInv, SessionsTypeOK
  <2>2. FamilyOf(call[c].token) \in Ids
    BY <2>1 DEF TypeInv, RowsInv
  <2>3. OfFamily(FamilyOf(call[c].token)) \ revoked \in SUBSET Ids
    BY DEF OfFamily
  <2>4. \E answer \in Answers : Snapshot(c, {FamilyOf(call[c].token)},
                                        OfFamily(FamilyOf(call[c].token)) \ revoked, answer)
    BY <1>8 DEF RevokeFamily, Answers
  <2>. QED
    BY <2>2, <2>3, <2>4, SnapshotTyped
<1>9. ASSUME NEW c \in Calls, NEW u \in Users, RevokeUser(c, u)
      PROVE  TypeInv'
  <2>1. OfUser(u) \in SUBSET Ids
    BY DEF OfUser
  <2>2. {FamilyOf(t) : t \in OfUser(u)} \in SUBSET Ids
    BY <2>1 DEF TypeInv, RowsInv
  <2>. QED
    BY <1>9, <2>1, <2>2, SnapshotTyped DEF RevokeUser, Answers
<1>. QED
  BY <1>1, <1>2, <1>3, <1>4, <1>5, <1>6, <1>7, <1>8, <1>9
     DEF SessionsNext, Serve, ServeFails

-----------------------------------------------------------------------------
(* OneLiveToken and EndedStaysEnded need to know what a refresh under way   *)
(* will do: it issues a token in the family of the one it found.            *)

LiveInv ==
  /\ \A s, t \in LiveIds : FamilyOf(s) = FamilyOf(t) /\ FamilyOf(s) \notin forked => s = t
  /\ \A c \in Calls, s \in LiveIds :
       Rotates(c) /\ FamilyOf(s) = FamilyOf(call[c].token) /\ FamilyOf(s) \notin forked
         => s = call[c].token
  /\ \A c, d \in Calls :
       /\ Rotates(c) /\ Rotates(d) /\ FamilyOf(call[c].token) = FamilyOf(call[d].token)
       /\ FamilyOf(call[c].token) \notin forked
       => c = d

EndInv ==
  /\ \A t \in LiveIds : FamilyOf(t) \in ended => FamilyOf(t) \in overlapped
  /\ \A d \in Calls : Rotates(d) /\ FamilyOf(call[d].token) \in ended
                       => FamilyOf(call[d].token) \in overlapped
  /\ \A c, d \in Calls :
       /\ call[c].at = "revoking" /\ Rotates(d)
       /\ FamilyOf(call[d].token) \in call[c].families
       => FamilyOf(call[d].token) \in overlapped
  /\ \A c \in Calls, t \in LiveIds :
       /\ call[c].at = "revoking" /\ FamilyOf(t) \in call[c].families
       /\ t \notin call[c].rows
       => FamilyOf(t) \in overlapped

(* No call begins to rotate, and none begins to revoke.                     *)
NoNewRotation ==
  \A d \in Calls : Rotates(d)' => Rotates(d) /\ call'[d].token = call[d].token

NoNewRevocation ==
  \A d \in Calls : call'[d].at = "revoking" => call'[d] = call[d]

LEMMA QuietLive ==
  ASSUME TypeInv, LiveInv, UNCHANGED <<tokens, forked>>, revoked \subseteq revoked', NoNewRotation
  PROVE  LiveInv'
<1>1. LiveIds' \subseteq LiveIds /\ \A t : FamilyOf(t)' = FamilyOf(t)
  BY DEF LiveIds, Ids, FamilyOf
<1>. QED
  BY <1>1 DEF LiveInv, NoNewRotation, FamilyOf

LEMMA QuietEnd ==
  ASSUME TypeInv, EndInv, UNCHANGED <<tokens, ended>>, revoked \subseteq revoked',
         overlapped \subseteq overlapped', NoNewRotation, NoNewRevocation
  PROVE  EndInv'
<1>1. LiveIds' \subseteq LiveIds
  BY DEF LiveIds, Ids
<1>. QED
  BY <1>1 DEF EndInv, NoNewRotation, NoNewRevocation, FamilyOf

(* A login begins a family of its own.                                      *)
LEMMA LoginKeeps ==
  ASSUME TypeInv, LiveInv, EndInv, NEW u \in Users, Login(u)
  PROVE  LiveInv' /\ EndInv'
<1>. DEFINE x == FirstToken(u, Len(tokens) + 1)
            n == Len(tokens) + 1
<1>1. tokens \in Seq(Token) /\ Len(tokens) \in Nat /\ tokens' = Append(tokens, x)
  BY DEF TypeInv, SessionsTypeOK, Login
<1>2. x \in Token /\ x.family = n
  BY LoginRow, SessionBounds DEF TypeInv, FirstToken
<1>. HIDE DEF x
<1>3. /\ Ids' = Ids \cup {n} /\ n \notin Ids
      /\ \A t \in Ids : tokens'[t] = tokens[t]
      /\ tokens'[n] = x
  BY <1>1, <1>2, AppendedRow
<1>. HIDE DEF n
<1>4. UNCHANGED <<revoked, call, ended, overlapped, forked>>
  BY DEF Login, past
<1>5. /\ LiveIds' \subseteq LiveIds \cup {n}
      /\ \A t \in LiveIds : tokens'[t] = tokens[t] /\ tokens[t].family \in Ids /\ t \in Ids
      /\ tokens'[n].family = n
  BY <1>2, <1>3, <1>4 DEF LiveIds, FamilyOf, TypeInv, RowsInv
<1>6. \A d \in Calls : Rotates(d) => /\ call[d].token \in Ids
                                    /\ tokens'[call[d].token] = tokens[call[d].token]
                                    /\ tokens[call[d].token].family \in Ids
  BY <1>3, <1>4 DEF Rotates, TypeInv, SessionsTypeOK, RowsInv, FamilyOf
<1>7. \A d \in Calls : Rotates(d)' = Rotates(d)
  BY <1>4 DEF Rotates
<1>8. ended \subseteq Ids /\ \A c \in Calls : call[c].families \subseteq Ids
  BY DEF TypeInv, FamiliesInv
<1>9. LiveInv'
  BY <1>3, <1>4, <1>5, <1>6, <1>7 DEF LiveInv, FamilyOf
<1>10. EndInv'
  BY <1>3, <1>4, <1>5, <1>6, <1>7, <1>8 DEF EndInv, FamilyOf
<1>. QED
  BY <1>9, <1>10

(* A token that is found valid is the only live one of its family, and its  *)
(* family was not ended.                                                    *)
LEMMA AcceptKeeps ==
  ASSUME TypeInv, LiveInv, EndInv, NEW c \in Calls,
         call[c].at = "refresh", call[c].token \in LiveIds, Accept(c), UNCHANGED <<now, table>>
  PROVE  LiveInv' /\ EndInv'
<1>. DEFINE t == call[c].token
            f == FamilyOf(t)
<1>1. /\ UNCHANGED <<tokens, revoked, ended>> /\ LiveIds' = LiveIds
      /\ \A s : FamilyOf(s)' = FamilyOf(s)
  BY DEF Accept, table, LiveIds, Ids, FamilyOf
<1>2. /\ \A d \in Calls : /\ call'[d].token = call[d].token
                          /\ d # c => call'[d] = call[d]
      /\ call'[c].at = "rotate"
  BY DEF Accept, Goes, TypeInv, SessionsTypeOK, Call
<1>3. \A d \in Calls : d # c => Rotates(d)' = Rotates(d)
  BY <1>2 DEF Rotates
<1>4. /\ forked \subseteq forked' /\ overlapped \subseteq overlapped'
      /\ \A d \in Calls : Rotates(d) /\ FamilyOf(call[d].token) = f /\ call[d].token = t => f \in forked'
      /\ \A d \in Calls : call[d].at = "revoking" /\ f \in call[d].families => f \in overlapped'
  BY DEF Accept, Rotating, Revoking, Rotates
<1>5. \A d \in Calls \ {c} : Rotates(d) /\ FamilyOf(call[d].token) = f => f \in forked'
  BY <1>4 DEF LiveInv
<1>6. LiveInv'
  BY <1>1, <1>2, <1>3, <1>4, <1>5 DEF LiveInv
<1>7. f \in ended => f \in overlapped
  BY DEF EndInv
<1>8. \A d \in Calls : call'[d].at = "revoking" => d # c /\ call'[d] = call[d]
  BY <1>2
<1>9. EndInv'
  BY <1>1, <1>2, <1>3, <1>4, <1>7, <1>8 DEF EndInv
<1>. QED
  BY <1>6, <1>9

LEMMA InsertKeeps ==
  ASSUME TypeInv, LiveInv, EndInv, NEW c \in Calls, NEW answer \in {"refreshed", "failed"},
         InsertNew(c, answer)
  PROVE  LiveInv' /\ EndInv'
<1>. DEFINE old == call[c].token
            n == Len(tokens) + 1
<1>1. /\ tokens \in Seq(Token) /\ Len(tokens) \in Nat /\ tokens' = Append(tokens, tokens[old])
      /\ revoked' = revoked \cup {old} /\ UNCHANGED <<ended, overlapped, forked>>
  BY DEF TypeInv, SessionsTypeOK, InsertNew, NextToken, Superseded, past
<1>2. old \in Ids /\ tokens[old] \in Token
  BY RotatedRow DEF TypeInv
<1>3. /\ Ids' = Ids \cup {n} /\ n \notin Ids
      /\ \A t \in Ids : tokens'[t] = tokens[t]
      /\ tokens'[n] = tokens[old]
  BY <1>1, <1>2, AppendedRow
<1>4. /\ \A d \in Calls : d # c => call'[d] = call[d] /\ Rotates(d)' = Rotates(d)
      /\ ~Rotates(c)' /\ call'[c].at # "revoking" /\ Rotates(c)
  BY DEF InsertNew, Begun, Rotates, TypeInv, SessionsTypeOK
<1>. HIDE DEF n, old
<1>5. /\ LiveIds' \subseteq (LiveIds \ {old}) \cup {n}
      /\ \A t \in Ids : tokens'[t] = tokens[t]
      /\ LiveIds \subseteq Ids
  BY <1>1, <1>2, <1>3 DEF LiveIds
<1>6. \A d \in Calls : Rotates(d) => call[d].token \in Ids
  BY DEF Rotates, TypeInv, SessionsTypeOK
<1>7. \A s \in LiveIds \ {old} : FamilyOf(s) = FamilyOf(old) => FamilyOf(s) \in forked
  BY <1>4 DEF LiveInv, old
<1>8. \A d \in Calls \ {c} : Rotates(d) /\ FamilyOf(call[d].token) = FamilyOf(old)
                             => FamilyOf(old) \in forked
  BY <1>4 DEF LiveInv, old
<1>9. \A d \in Calls : Rotates(d)' =>
         d # c /\ Rotates(d) /\ call'[d] = call[d] /\ tokens'[call[d].token] = tokens[call[d].token]
  BY <1>4, <1>5, <1>6
<1>10. LiveInv'
  <2>1. ASSUME NEW s \in LiveIds', NEW t \in LiveIds', tokens'[s].family = tokens'[t].family,
               tokens'[s].family \notin forked
        PROVE  s = t
    BY <1>3, <1>5, <1>7, <2>1 DEF LiveInv, FamilyOf
  <2>2. ASSUME NEW d \in Calls, NEW s \in LiveIds', Rotates(d)',
               tokens'[s].family = tokens'[call'[d].token].family, tokens'[s].family \notin forked
        PROVE  s = call'[d].token
    BY <1>3, <1>5, <1>8, <1>9, <2>2 DEF LiveInv, FamilyOf
  <2>3. ASSUME NEW d \in Calls, NEW g \in Calls, Rotates(d)', Rotates(g)',
               tokens'[call'[d].token].family = tokens'[call'[g].token].family,
               tokens'[call'[d].token].family \notin forked
        PROVE  d = g
    BY <1>9, <2>3 DEF LiveInv, FamilyOf
  <2>. QED
    BY <1>1, <2>1, <2>2, <2>3 DEF LiveInv, FamilyOf
<1>11. FamilyOf(old) \in ended => FamilyOf(old) \in overlapped
  BY <1>4 DEF EndInv, old
<1>12. \A d \in Calls : call[d].at = "revoking" /\ FamilyOf(old) \in call[d].families
                         => FamilyOf(old) \in overlapped
  BY <1>4 DEF EndInv, old
<1>13. \A d \in Calls : call'[d].at = "revoking" => call'[d] = call[d]
  BY <1>4
<1>14. EndInv'
  <2>1. ASSUME NEW t \in LiveIds', tokens'[t].family \in ended
        PROVE  tokens'[t].family \in overlapped
    BY <1>3, <1>5, <1>11, <2>1 DEF EndInv, FamilyOf
  <2>2. ASSUME NEW d \in Calls, Rotates(d)', tokens'[call'[d].token].family \in ended
        PROVE  tokens'[call'[d].token].family \in overlapped
    BY <1>9, <2>2 DEF EndInv, FamilyOf
  <2>3. ASSUME NEW e \in Calls, NEW d \in Calls, call'[e].at = "revoking", Rotates(d)',
               tokens'[call'[d].token].family \in call'[e].families
        PROVE  tokens'[call'[d].token].family \in overlapped
    BY <1>9, <1>13, <2>3 DEF EndInv, FamilyOf
  <2>4. ASSUME NEW e \in Calls, NEW t \in LiveIds', call'[e].at = "revoking",
               tokens'[t].family \in call'[e].families, t \notin call'[e].rows
        PROVE  tokens'[t].family \in overlapped
    BY <1>3, <1>5, <1>12, <1>13, <2>4 DEF EndInv, FamilyOf
  <2>. QED
    BY <1>1, <2>1, <2>2, <2>3, <2>4 DEF EndInv, FamilyOf
<1>. QED
  BY <1>10, <1>14

(* A revocation that sees every live row of its families.                   *)
LEMMA SnapshotKeeps ==
  ASSUME TypeInv, LiveInv, EndInv, NEW c \in Calls, NEW F, NEW rows, NEW answer,
         Snapshot(c, F, rows, answer), \A t \in LiveIds : FamilyOf(t) \in F => t \in rows
  PROVE  LiveInv' /\ EndInv'
<1>1. /\ UNCHANGED <<tokens, revoked, ended, forked>> /\ LiveIds' = LiveIds
      /\ \A s : FamilyOf(s)' = FamilyOf(s)
  BY DEF Snapshot, table, LiveIds, Ids, FamilyOf
<1>2. /\ \A d \in Calls : d # c => call'[d] = call[d] /\ Rotates(d)' = Rotates(d)
      /\ call'[c].at = "revoking" /\ call'[c].families = F /\ call'[c].rows = rows
      /\ ~Rotates(c)'
  BY DEF Snapshot, TypeInv, SessionsTypeOK, Rotates
<1>3. NoNewRotation
  BY <1>2 DEF NoNewRotation
<1>4. LiveInv'
  BY <1>1, <1>3, QuietLive
<1>5. /\ overlapped \subseteq overlapped'
      /\ \A d \in Calls : Rotates(d) /\ FamilyOf(call[d].token) \in F
                          => FamilyOf(call[d].token) \in overlapped'
  BY DEF Snapshot, Rotating, Rotates
<1>6. EndInv'
  BY <1>1, <1>2, <1>5 DEF EndInv
<1>. QED
  BY <1>4, <1>6

LEMMA CommitKeeps ==
  ASSUME TypeInv, LiveInv, EndInv, NEW c \in Calls, NEW answer \in Answers,
         CommitRevocation(c, answer)
  PROVE  LiveInv' /\ EndInv'
<1>1. /\ UNCHANGED <<tokens, overlapped, forked>> /\ revoked' = revoked \cup call[c].rows
      /\ ended' = ended \cup call[c].families
      /\ LiveIds' = LiveIds \ call[c].rows /\ \A s : FamilyOf(s)' = FamilyOf(s)
  BY DEF CommitRevocation, Revoked, LiveIds, Ids, FamilyOf
<1>2. /\ \A d \in Calls : d # c => call'[d] = call[d] /\ Rotates(d)' = Rotates(d)
      /\ call[c].at = "revoking" /\ ~Rotates(c)' /\ ~Rotates(c) /\ call'[c].at # "revoking"
  BY DEF CommitRevocation, Goes, TypeInv, SessionsTypeOK, Rotates, Answers
<1>3. NoNewRotation
  BY <1>2 DEF NoNewRotation
<1>4. LiveInv'
  BY <1>1, <1>3, QuietLive
<1>5. EndInv'
  BY <1>1, <1>2 DEF EndInv
<1>. QED
  BY <1>4, <1>5

(* What the other steps of a call have in common: no row appears, and the   *)
(* call neither begins to rotate nor to revoke.                             *)
LEMMA QuietKeeps ==
  ASSUME TypeInv, LiveInv, EndInv, NEW c \in Calls,
         UNCHANGED <<tokens, past>>, revoked \subseteq revoked',
         \A d \in Calls : d # c => call'[d] = call[d],
         Rotates(c)' => Rotates(c) /\ call'[c].token = call[c].token,
         call'[c].at # "revoking"
  PROVE  LiveInv' /\ EndInv'
<1>1. NoNewRotation /\ NoNewRevocation
  BY DEF NoNewRotation, NoNewRevocation, Rotates
<1>2. UNCHANGED <<ended, overlapped, forked>>
  BY DEF past
<1>. QED
  BY <1>1, <1>2, QuietLive, QuietEnd

LEMMA MovesKeep ==
  ASSUME TypeInv, LiveInv, EndInv, NEW c \in Calls,
         AnyRequest(c) \/ UpdateOld(c) \/ RevokeExpired(c) \/ FindLogout(c) \/ Fails(c)
  PROVE  LiveInv' /\ EndInv'
<1>1. UNCHANGED <<tokens, past>> /\ revoked \subseteq revoked'
  BY DEF AnyRequest, UpdateOld, RevokeExpired, FindLogout, Fails, table
<1>2. \A d \in Calls : d # c => call'[d] = call[d]
  BY DEF AnyRequest, Start, Answered, UpdateOld, RevokeExpired, FindLogout, Fails, Goes,
         TypeInv, SessionsTypeOK
<1>3. /\ Rotates(c)' => Rotates(c) /\ call'[c].token = call[c].token
      /\ call'[c].at # "revoking"
  <2>1. call \in [Calls -> Call]
    BY DEF TypeInv, SessionsTypeOK
  <2>2. CASE AnyRequest(c)
    BY <2>1, <2>2 DEF AnyRequest, Start, Answered, Idle, Begun, Rotates
  <2>3. CASE UpdateOld(c)
    BY <2>1, <2>3 DEF UpdateOld, Goes, Rotates, Call
  <2>4. CASE RevokeExpired(c) \/ FindLogout(c) \/ Fails(c)
    <3>1. \E place \in {"refused", "sign-out", "done", "failed"} : Goes(c, place)
      BY <2>4 DEF RevokeExpired, FindLogout, Fails
    <3>. QED
      BY <2>1, <3>1 DEF Goes, Rotates, Call
  <2>. QED
    BY <2>2, <2>3, <2>4
<1>. QED
  BY <1>1, <1>2, <1>3, QuietKeeps

LEMMA FindKeeps ==
  ASSUME TypeInv, LiveInv, EndInv, NEW c \in Calls, FindRefresh(c)
  PROVE  LiveInv' /\ EndInv'
<1>1. UNCHANGED <<now, table>> /\ call[c].at = "refresh"
  BY DEF FindRefresh
<1>2. CASE call[c].token \in LiveIds /\ Accept(c)
  BY <1>1, <1>2, AcceptKeeps
<1>3. CASE UNCHANGED past /\ \E place \in {"refused", "reuse", "expired"} : Goes(c, place)
  <2>1. /\ UNCHANGED tokens /\ revoked \subseteq revoked'
        /\ \A d \in Calls : d # c => call'[d] = call[d]
        /\ ~Rotates(c)' /\ call'[c].at # "revoking"
    BY <1>1, <1>3 DEF table, Goes, Rotates, TypeInv, SessionsTypeOK
  <2>. QED
    BY <1>3, <2>1, QuietKeeps
<1>. QED
  BY <1>2, <1>3 DEF FindRefresh

LEMMA RevokesKeep ==
  ASSUME TypeInv, LiveInv, EndInv, NEW c \in Calls,
         RevokeFamily(c) \/ \E u \in Users : RevokeUser(c, u)
  PROVE  LiveInv' /\ EndInv'
<1>1. CASE RevokeFamily(c)
  <2>1. PICK answer : Snapshot(c, {FamilyOf(call[c].token)},
                               OfFamily(FamilyOf(call[c].token)) \ revoked, answer)
    BY <1>1 DEF RevokeFamily
  <2>2. \A t \in LiveIds : FamilyOf(t) \in {FamilyOf(call[c].token)}
                            => t \in OfFamily(FamilyOf(call[c].token)) \ revoked
    BY DEF LiveIds, OfFamily
  <2>. QED
    BY <2>1, <2>2, SnapshotKeeps
<1>2. ASSUME NEW u \in Users, RevokeUser(c, u)
      PROVE  LiveInv' /\ EndInv'
  <2>1. Snapshot(c, {FamilyOf(t) : t \in OfUser(u)}, OfUser(u), "done")
    BY <1>2 DEF RevokeUser
  <2>2. \A t \in LiveIds : FamilyOf(t) \in {FamilyOf(s) : s \in OfUser(u)} => t \in OfUser(u)
    BY DEF LiveIds, OfUser, TypeInv, RowsInv, FamilyOf
  <2>. QED
    BY <2>1, <2>2, SnapshotKeeps
<1>. QED
  BY <1>1, <1>2

LEMMA ProtocolStep ==
  ASSUME TypeInv, LiveInv, EndInv, [SessionsNext]_sessions
  PROVE  LiveInv' /\ EndInv'
<1>1. CASE Tick \/ UNCHANGED sessions
  <2>1. UNCHANGED <<tokens, revoked, call, ended, overlapped, forked>>
    BY <1>1 DEF Tick, sessions, table, past
  <2>2. NoNewRotation /\ NoNewRevocation
    BY <2>1 DEF NoNewRotation, NoNewRevocation, Rotates
  <2>. QED
    BY <2>1, <2>2, QuietLive, QuietEnd
<1>2. ASSUME NEW u \in Users, Login(u)
      PROVE  LiveInv' /\ EndInv'
  BY <1>2, LoginKeeps
<1>3. ASSUME NEW c \in Calls,
             AnyRequest(c) \/ Serve(c) \/ ServeFails(c) \/ \E u \in Users : RevokeUser(c, u)
      PROVE  LiveInv' /\ EndInv'
  <2>1. CASE AnyRequest(c) \/ UpdateOld(c) \/ RevokeExpired(c) \/ FindLogout(c) \/ Fails(c)
    BY <2>1, MovesKeep
  <2>2. CASE FindRefresh(c)
    BY <2>2, FindKeeps
  <2>3. CASE InsertNew(c, "refreshed") \/ InsertNew(c, "failed")
    BY <2>3, InsertKeeps
  <2>4. CASE RevokeFamily(c) \/ \E u \in Users : RevokeUser(c, u)
    BY <2>4, RevokesKeep
  <2>5. ASSUME NEW answer, CommitRevocation(c, answer), answer \in {call[c].answer, "failed"}
        PROVE  LiveInv' /\ EndInv'
    BY <2>5, CommitKeeps DEF TypeInv, SessionsTypeOK, Call, Answers
  <2>. QED
    BY <1>3, <2>1, <2>2, <2>3, <2>4, <2>5 DEF Serve, ServeFails
<1>. QED
  BY <1>1, <1>2, <1>3 DEF SessionsNext

-----------------------------------------------------------------------------
SessionsInv == TypeInv /\ LiveInv /\ EndInv

LEMMA SessionsInductive == SessionsSpec => []SessionsInv
<1>1. Init => SessionsInv
  <2>. SUFFICES ASSUME Init PROVE SessionsInv
    OBVIOUS
  <2>1. Ids = {}
    BY DEF Init, Ids
  <2>2. SessionsTypeOK
    BY SessionBounds DEF Init, SessionsTypeOK, Idle, Begun, NoToken, Call, Stations, Answers,
                         SessionBounds
  <2>. QED
    BY <2>1, <2>2 DEF Init, Idle, Begun, SessionsInv, TypeInv, RowsInv, FamiliesInv,
                      FamilyKeepsExpiry, LiveInv, EndInv, LiveIds, Rotates
<1>2. SessionsInv /\ [SessionsNext]_sessions => SessionsInv'
  BY TypeStep, ProtocolStep DEF SessionsInv
<1>. QED
  BY <1>1, <1>2, PTL DEF SessionsSpec

(* The table is well formed, and a call is only ever about a token that     *)
(* exists (schema.prisma, RefreshToken; auth.service.ts refreshToken).      *)
THEOREM SessionsTyped == SessionsSpec => []SessionsTypeOK
<1>1. SessionsInv => SessionsTypeOK
  BY DEF SessionsInv, TypeInv
<1>. QED
  BY <1>1, SessionsInductive, PTL

(* No rotation makes a session longer, however many there are: a family     *)
(* expires when its login said (auth.service.ts, rotateRefreshToken).       *)
THEOREM LifetimeIsFixed == SessionsSpec => []FamilyKeepsExpiry
<1>1. SessionsInv => FamilyKeepsExpiry
  BY DEF SessionsInv, TypeInv
<1>. QED
  BY <1>1, SessionsInductive, PTL

(* Only two refreshes of one token at once can leave a family with two live *)
(* tokens (auth.service.ts refreshToken).                                   *)
THEOREM OneLiveTokenHolds == SessionsSpec => []OneLiveToken
<1>1. SessionsInv => OneLiveToken
  BY DEF SessionsInv, LiveInv, OneLiveToken, OfFamily, LiveIds
<1>. QED
  BY <1>1, SessionsInductive, PTL

(* Only a refresh that overlaps with a revocation can leave a family that   *)
(* was ended a live token (auth.repository.ts, revokeFamilyByFamilyId).     *)
THEOREM EndedStaysEndedHolds == SessionsSpec => []EndedStaysEnded
<1>1. SessionsInv => EndedStaysEnded
  BY DEF SessionsInv, EndInv, EndedStaysEnded, OfFamily, LiveIds
<1>. QED
  BY <1>1, SessionsInductive, PTL
=============================================================================
