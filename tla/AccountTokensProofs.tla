------------------------ MODULE AccountTokensProofs ------------------------
(***************************************************************************)
(* Proofs about AccountTokens, for any sets of users, tokens and requests, *)
(* with and without faults.                                                *)
(***************************************************************************)
EXTENDS AccountTokens, TLAPS

USE NoUserAssumption, NoTokenAssumption, FaultsAssumption

-----------------------------------------------------------------------------
(* The inductive invariant. *)

Carries(r) == req[r].pc \in {"send", "use"}

\* A request is about a user with a row, and carries a token generated for it.
ReqSound(r) ==
    /\ ~At(r, "idle") => req[r].user \in Users /\ account[req[r].user] # "none"
    /\ Carries(r) => req[r].tok \in Tokens /\ owner[req[r].tok] = req[r].user

\* A column holds a token of the row's own user that was never used.
ColumnSound(k, u) ==
    token[k][u] # NoToken =>
        owner[token[k][u]] = u /\ account[u] # "none" /\ token[k][u] \notin used

UsedSeen == \A t \in used : owner[t] # NoUser

\* A token is of one kind: no UPDATE of one column uses up what is in the other.
OneKind ==
    /\ \A u \in Users : token["verify"][u] # NoToken => token["verify"][u] # token["reset"][u]
    /\ \A r \in Requests, k \in Kinds, u \in Users :
         Carries(r) /\ k # req[r].kind => token[k][u] # req[r].tok

\* What is known of a link unless a mail was lost or raced: the row has the
\* token that a request is about to mail, and the last mail's token is in the
\* row, used, or carried by the only request about the link.
LinkSound(k, u) ==
    u \notin blurred[k] =>
        /\ Rivals(k, u) = {} => mail[k][u] \in used \union {NoToken, token[k][u]}
        /\ \A r \in Rivals(k, u) : At(r, "send") => token[k][u] = req[r].tok
        /\ \A r \in Requests : Rivals(k, u) = {r} /\ At(r, "use") =>
             mail[k][u] \in used \union {NoToken, req[r].tok}

IInv ==
    /\ TypeOK
    /\ \A r \in Requests : ReqSound(r)
    /\ \A k \in Kinds, u \in Users : ColumnSound(k, u)
    /\ UsedSeen
    /\ OneKind
    /\ \A k \in Kinds, u \in Users : LinkSound(k, u)

LEMMA IInvInit == Init => IInv
<1> SUFFICES ASSUME Init PROVE IInv
  OBVIOUS
<1> USE DEF Init, NoTokens, Idle, Kinds
<1>1. TypeOK
  BY DEF TypeOK, RequestStates, PCs
<1>2. \A r \in Requests : ReqSound(r) /\ ~Carries(r)
  BY DEF ReqSound, Carries, At
<1>3. \A k \in Kinds, u \in Users : ColumnSound(k, u)
  BY DEF ColumnSound
<1>4. UsedSeen /\ OneKind
  BY <1>2 DEF UsedSeen, OneKind
<1>5. \A k \in Kinds, u \in Users : LinkSound(k, u)
  BY DEF LinkSound, Rivals, At
<1>6. QED BY <1>1, <1>2, <1>3, <1>4, <1>5 DEF IInv

-----------------------------------------------------------------------------
(* Lemmas about the operators of the model. *)

\* One request changes.
LEMMA BecomeEffect ==
    ASSUME TypeOK, NEW r \in Requests, NEW state \in RequestStates, Become(r, state)
    PROVE  /\ req' \in [Requests -> RequestStates]
           /\ req'[r] = state
           /\ \A s \in Requests \ {r} : req'[s] = req[s]
BY DEF TypeOK, Become

LEMMA FinishEffect ==
    ASSUME TypeOK, NEW r \in Requests, Finish(r)
    PROVE  /\ req' \in [Requests -> RequestStates]
           /\ req'[r].pc = "idle"
           /\ \A s \in Requests \ {r} : req'[s] = req[s]
<1>1. Idle \in RequestStates /\ Idle.pc = "idle"
  BY DEF Idle, RequestStates, PCs, Kinds
<1>2. QED BY <1>1, BecomeEffect DEF Finish

\* One column changes.
LEMMA OneColumn ==
    ASSUME TypeOK, NEW k \in Kinds, NEW u \in Users, NEW t \in Tokens \union {NoToken},
           token' = [token EXCEPT ![k][u] = t]
    PROVE  /\ token' \in [Kinds -> [Users -> Tokens \union {NoToken}]]
           /\ \A j \in Kinds, v \in Users :
                token'[j][v] = IF j = k /\ v = u THEN t ELSE token[j][v]
BY DEF TypeOK

LEMMA OneMail ==
    ASSUME TypeOK, NEW k \in Kinds, NEW u \in Users, NEW t \in Tokens \union {NoToken},
           mail' = [mail EXCEPT ![k][u] = t]
    PROVE  /\ mail' \in [Kinds -> [Users -> Tokens \union {NoToken}]]
           /\ \A j \in Kinds, v \in Users :
                mail'[j][v] = IF j = k /\ v = u THEN t ELSE mail[j][v]
BY DEF TypeOK

\* A fresh token gets its owner.
LEMMA OneOwner ==
    ASSUME TypeOK, NEW t \in Fresh, NEW u \in Users, owner' = [owner EXCEPT ![t] = u]
    PROVE  /\ owner' \in [Tokens -> Users \union {NoUser}]
           /\ owner'[t] = u /\ \A x \in Tokens \ {t} : owner'[x] = owner[x]
BY DEF TypeOK, Fresh

\* A step blurs one link, or clears one.
LEMMA BlurEffect ==
    ASSUME TypeOK, NEW k \in Kinds, NEW u \in Users, Blur(k, u)
    PROVE  /\ blurred' \in [Kinds -> SUBSET Users]
           /\ u \in blurred'[k]
           /\ \A j \in Kinds : blurred[j] \subseteq blurred'[j]
BY DEF TypeOK, Blur

LEMMA BlurIfContestedEffect ==
    ASSUME IInv, NEW r \in Requests, ~At(r, "idle"), BlurIfContested(r)
    PROVE  /\ blurred' \in [Kinds -> SUBSET Users]
           /\ Contested(r) => req[r].user \in blurred'[req[r].kind]
           /\ \A j \in Kinds : blurred[j] \subseteq blurred'[j]
<1>1. req[r].kind \in Kinds /\ req[r].user \in Users
  BY DEF IInv, TypeOK, RequestStates, ReqSound
<1>2. CASE Contested(r)
  BY <1>1, <1>2, BlurEffect DEF BlurIfContested, IInv
<1>3. CASE ~Contested(r)
  BY <1>3 DEF BlurIfContested, IInv, TypeOK
<1>4. QED BY <1>2, <1>3

\* A request that is not idle is a rival on its own link.
LEMMA OwnRival ==
    ASSUME NEW r \in Requests, ~At(r, "idle")
    PROVE  r \in Rivals(req[r].kind, req[r].user)
BY DEF Rivals

\* The rivals on a link after a step that changes one request.
LEMMA RivalsEffect ==
    ASSUME NEW r \in Requests, \A s \in Requests \ {r} : req'[s] = req[s],
           NEW k \in Kinds, NEW u \in Users
    PROVE  /\ \A s \in Requests \ {r} : s \in Rivals(k, u)' <=> s \in Rivals(k, u)
           /\ r \in Rivals(k, u)' <=> req'[r].pc # "idle" /\ req'[r].kind = k /\ req'[r].user = u
           /\ r \in Rivals(k, u) <=> req[r].pc # "idle" /\ req[r].kind = k /\ req[r].user = u
           /\ Rivals(k, u) \subseteq Requests /\ Rivals(k, u)' \subseteq Requests
BY DEF Rivals, At

LEMMA RivalsKept ==
    ASSUME NEW r \in Requests, \A s \in Requests \ {r} : req'[s] = req[s],
           NEW k \in Kinds, NEW u \in Users, r \notin Rivals(k, u), r \notin Rivals(k, u)'
    PROVE  Rivals(k, u)' = Rivals(k, u) /\ \A s \in Rivals(k, u) : req'[s] = req[s]
<1>1. \A s \in Rivals(k, u) : s \in Requests \ {r}
  BY DEF Rivals
<1>2. \A s : s \in Rivals(k, u)' <=> s \in Rivals(k, u)
  BY DEF Rivals, At
<1>3. QED BY <1>1, <1>2

\* What a step must not touch for a link to stay as it is.
LEMMA LinkKept ==
    ASSUME NEW k \in Kinds, NEW u \in Users, LinkSound(k, u),
           Rivals(k, u)' = Rivals(k, u),
           \A s \in Rivals(k, u) : req'[s] = req[s],
           token'[k][u] = token[k][u], mail'[k][u] = mail[k][u], used \subseteq used',
           u \in blurred[k] => u \in blurred'[k]
    PROVE  LinkSound(k, u)'
BY DEF LinkSound, At

-----------------------------------------------------------------------------
(* The steps. *)

\* A request begins: what it carries is in the column that it has read.
LEMMA BeginStep ==
    ASSUME IInv, NEW r \in Requests, NEW state \in RequestStates, At(r, "idle"),
           Become(r, state), state.user \in Users, account[state.user] # "none",
           \/ state.pc = "set"
           \/ /\ state.pc = "use" /\ state.tok \in Tokens
              /\ token[state.kind][state.user] = state.tok,
           UNCHANGED <<account, token, expired, received, owner, mail, used, blurred>>
    PROVE  IInv'
<1>0. /\ req' \in [Requests -> RequestStates]
      /\ req'[r] = state
      /\ \A s \in Requests \ {r} : req'[s] = req[s]
      /\ TypeOK /\ state.kind \in Kinds /\ state.tok \in Tokens \union {NoToken}
  BY BecomeEffect DEF IInv, RequestStates
<1>1. TypeOK'
  BY <1>0 DEF TypeOK
<1>2. state.pc = "use" => owner[state.tok] = state.user
  BY <1>0 DEF IInv, ColumnSound
<1>3. \A s \in Requests : ReqSound(s)'
  BY <1>0, <1>2 DEF IInv, ReqSound, Carries, At
<1>4. \A k \in Kinds, u \in Users : ColumnSound(k, u)'
  BY DEF IInv, ColumnSound
<1>5. UsedSeen'
  BY DEF IInv, UsedSeen
<1>6. OneKind'
  <2>1. ASSUME state.pc = "use", NEW k \in Kinds, NEW u \in Users, k # state.kind
        PROVE  token[k][u] # state.tok
    <3>1. CASE u = state.user
      BY <1>0, <2>1, <3>1 DEF IInv, OneKind, Kinds
    <3>2. CASE u # state.user
      BY <1>0, <1>2, <2>1, <3>2 DEF IInv, ColumnSound
    <3>3. QED BY <3>1, <3>2
  <2>2. QED BY <1>0, <2>1 DEF IInv, OneKind, Carries
<1>7. ASSUME NEW k \in Kinds, NEW u \in Users PROVE LinkSound(k, u)'
  <2>1. /\ r \notin Rivals(k, u)
        /\ r \in Rivals(k, u)' <=> state.kind = k /\ state.user = u
        /\ \A s \in Requests \ {r} : s \in Rivals(k, u)' <=> s \in Rivals(k, u)
        /\ Rivals(k, u) \subseteq Requests /\ Rivals(k, u)' \subseteq Requests
    BY <1>0, RivalsEffect DEF At
  <2>2. LinkSound(k, u)
    BY DEF IInv
  <2>3. CASE state.kind = k /\ state.user = u
    <3>1. \A s \in Requests : Rivals(k, u)' = {s} => s = r /\ Rivals(k, u) = {}
      BY <2>1, <2>3
    <3>2. QED BY <1>0, <2>1, <2>2, <2>3, <3>1 DEF LinkSound, At
  <2>4. CASE ~(state.kind = k /\ state.user = u)
    <3>1. Rivals(k, u)' = Rivals(k, u) /\ \A s \in Rivals(k, u) : req'[s] = req[s]
      BY <1>0, <2>1, <2>4, RivalsKept
    <3>2. QED BY <2>2, <3>1, LinkKept
  <2>5. QED BY <2>3, <2>4
<1>8. QED BY <1>1, <1>3, <1>4, <1>5, <1>6, <1>7 DEF IInv

\* A token is generated, written into a column and carried away to be mailed.
\* On a link with no other request the step leaves nothing blurred.
LEMMA FreshStep ==
    ASSUME IInv, NEW r \in Requests, NEW state \in RequestStates, Become(r, state),
           state.pc = "send", state.user \in Users, state.tok \in Fresh,
           \/ At(r, "idle") /\ Rivals(state.kind, state.user) = {}
           \/ req[r].kind = state.kind /\ req[r].user = state.user /\ ~At(r, "idle"),
           token' \in [Kinds -> [Users -> Tokens \union {NoToken}]],
           \A j \in Kinds, v \in Users :
             token'[j][v] = IF j = state.kind /\ v = state.user THEN state.tok ELSE token[j][v],
           owner' \in [Tokens -> Users \union {NoUser}],
           owner'[state.tok] = state.user,
           \A x \in Tokens \ {state.tok} : owner'[x] = owner[x],
           account' \in [Users -> {"none", "unverified", "verified"}],
           account'[state.user] # "none",
           \A v \in Users : account[v] # "none" => account'[v] # "none",
           blurred' \in [Kinds -> SUBSET Users],
           \A j \in Kinds, v \in Users :
             v \in blurred[j] /\ v \notin blurred'[j] => j = state.kind /\ v = state.user,
           Rivals(state.kind, state.user) \ {r} # {} => state.user \in blurred'[state.kind],
           UNCHANGED <<expired, received, mail, used>>
    PROVE  IInv'
<1> PICK k \in Kinds, u \in Users, t \in Fresh : k = state.kind /\ u = state.user /\ t = state.tok
  BY DEF RequestStates
<1>0. TypeOK /\ t \in Tokens /\ owner[t] = NoUser
  BY DEF IInv, Fresh
<1>1. /\ req' \in [Requests -> RequestStates]
      /\ req'[r] = state
      /\ \A s \in Requests \ {r} : req'[s] = req[s]
  BY <1>0, BecomeEffect
<1>2. TypeOK'
  BY <1>0, <1>1 DEF TypeOK
<1>3. t \notin used /\ \A j \in Kinds, v \in Users : token[j][v] # t
  BY <1>0 DEF IInv, UsedSeen, ColumnSound
<1>4. \A s \in Requests \ {r} : Carries(s) => req[s].tok \in Tokens /\ req[s].tok # t
  <2>1. ASSUME NEW s \in Requests, Carries(s)
        PROVE  req[s].user \in Users /\ req[s].tok \in Tokens /\ owner[req[s].tok] = req[s].user
    BY <2>1 DEF IInv, ReqSound, Carries, At
  <2>2. QED BY <1>0, <2>1
<1>5. \A s \in Requests : ReqSound(s)'
  <2>1. ReqSound(r)'
    BY <1>0, <1>1 DEF ReqSound, Carries, At
  <2>2. ASSUME NEW s \in Requests \ {r} PROVE ReqSound(s)'
    BY <1>1, <1>4 DEF IInv, ReqSound, Carries, At
  <2>3. QED BY <2>1, <2>2
<1>6. \A j \in Kinds, v \in Users : ColumnSound(j, v)'
  <2> SUFFICES ASSUME NEW j \in Kinds, NEW v \in Users PROVE ColumnSound(j, v)'
    OBVIOUS
  <2>1. CASE j = k /\ v = u
    BY <1>3, <2>1 DEF ColumnSound
  <2>2. CASE ~(j = k /\ v = u)
    <3>1. token'[j][v] = token[j][v] /\ token[j][v] \in Tokens \union {NoToken}
      BY <1>0, <2>2 DEF TypeOK
    <3>2. ColumnSound(j, v)
      BY DEF IInv
    <3>3. QED BY <1>3, <3>1, <3>2 DEF ColumnSound
  <2>3. QED BY <2>1, <2>2
<1>7. UsedSeen'
  BY <1>0, <1>3 DEF IInv, UsedSeen, TypeOK
<1>8. OneKind'
  <2>1. \A v \in Users : token'["verify"][v] # NoToken => token'["verify"][v] # token'["reset"][v]
    BY <1>3 DEF IInv, OneKind, Kinds
  <2>2. ASSUME NEW s \in Requests, NEW j \in Kinds, NEW v \in Users,
               Carries(s)', j # req'[s].kind
        PROVE  token'[j][v] # req'[s].tok
    <3>1. CASE s = r
      BY <1>1, <1>3, <2>2, <3>1
    <3>2. CASE s # r
      BY <1>1, <1>4, <2>2, <3>2 DEF IInv, OneKind, Carries
    <3>3. QED BY <3>1, <3>2
  <2>3. QED BY <2>1, <2>2 DEF OneKind
<1>9. ASSUME NEW j \in Kinds, NEW v \in Users PROVE LinkSound(j, v)'
  <2>1. /\ \A s \in Requests \ {r} : s \in Rivals(j, v)' <=> s \in Rivals(j, v)
        /\ r \in Rivals(j, v)' <=> j = k /\ v = u
        /\ r \in Rivals(j, v) => j = k /\ v = u
        /\ Rivals(j, v) \subseteq Requests /\ Rivals(j, v)' \subseteq Requests
    BY <1>1, RivalsEffect DEF At
  <2>2. CASE j = k /\ v = u
    <3>1. CASE u \in blurred'[k]
      BY <2>2, <3>1 DEF LinkSound
    <3>2. CASE u \notin blurred'[k]
      <4>1. Rivals(k, u)' = {r}
        BY <2>1, <2>2, <3>2
      <4>2. At(r, "send")' /\ token'[k][u] = req'[r].tok
        BY <1>1 DEF At
      <4>3. LinkSound(k, u)'
        BY <4>1, <4>2 DEF LinkSound, At
      <4>4. QED BY <2>2, <4>3
    <3>3. QED BY <3>1, <3>2
  <2>3. CASE ~(j = k /\ v = u)
    <3>0. r \notin Rivals(j, v) /\ r \notin Rivals(j, v)'
      BY <2>1, <2>3
    <3>1. Rivals(j, v)' = Rivals(j, v) /\ \A s \in Rivals(j, v) : req'[s] = req[s]
      BY <1>1, <3>0, RivalsKept
    <3>2. LinkSound(j, v) /\ token'[j][v] = token[j][v]
      BY <2>3 DEF IInv
    <3>3. QED BY <2>3, <3>1, <3>2, LinkKept
  <2>4. QED BY <2>2, <2>3
<1>10. QED BY <1>2, <1>5, <1>6, <1>7, <1>8, <1>9 DEF IInv

\* A request ends.  It may use up the token it carries together with the
\* column, and it leaves an undisturbed link with a mail that works.
LEMMA EndStep ==
    ASSUME IInv, NEW r \in Requests, NEW k \in Kinds, NEW u \in Users,
           ~At(r, "idle"), req[r].kind = k, req[r].user = u, Finish(r),
           account' \in [Users -> {"none", "unverified", "verified"}],
           \A v \in Users : account[v] # "none" => account'[v] # "none",
           token' \in [Kinds -> [Users -> Tokens \union {NoToken}]],
           mail' \in [Kinds -> [Users -> Tokens \union {NoToken}]],
           \A j \in Kinds, v \in Users :
             ~(j = k /\ v = u) => token'[j][v] = token[j][v] /\ mail'[j][v] = mail[j][v],
           \/ used' = used /\ token' = token
           \/ used' = used \union {req[r].tok} /\ token'[k][u] = NoToken /\ Carries(r),
           blurred' \in [Kinds -> SUBSET Users],
           \A j \in Kinds : blurred[j] \subseteq blurred'[j],
           Contested(r) => u \in blurred'[k],
           u \notin blurred'[k] => mail'[k][u] \in used' \union {NoToken, token'[k][u]},
           received' \subseteq Tokens, UNCHANGED <<expired, owner>>
    PROVE  IInv'
<1>0. /\ TypeOK
      /\ req' \in [Requests -> RequestStates] /\ req'[r].pc = "idle"
      /\ \A s \in Requests \ {r} : req'[s] = req[s]
  BY FinishEffect DEF IInv
<1>1. Carries(r) => req[r].tok \in Tokens /\ owner[req[r].tok] = u
  BY DEF IInv, ReqSound
<1>2. TypeOK'
  BY <1>0, <1>1 DEF TypeOK
<1>3. \A s \in Requests : ReqSound(s)'
  BY <1>0 DEF IInv, ReqSound, Carries, At
<1>4. ASSUME NEW j \in Kinds, NEW v \in Users PROVE ColumnSound(j, v)'
  <2>1. CASE used' = used /\ token' = token
    BY <2>1 DEF IInv, ColumnSound
  <2>2. CASE used' = used \union {req[r].tok} /\ token'[k][u] = NoToken /\ Carries(r)
    <3>1. CASE j = k /\ v = u
      BY <2>2, <3>1 DEF ColumnSound
    <3>2. CASE ~(j = k /\ v = u)
      <4>1. token'[j][v] = token[j][v]
        BY <3>2
      <4>2. token[j][v] # req[r].tok
        BY <1>1, <2>2, <3>2 DEF IInv, OneKind, ColumnSound
      <4>3. QED BY <2>2, <4>1, <4>2 DEF IInv, ColumnSound
    <3>3. QED BY <3>1, <3>2
  <2>3. QED BY <2>1, <2>2
<1>5. UsedSeen'
  BY <1>1 DEF IInv, UsedSeen
<1>6. OneKind'
  <2>1. \A j \in Kinds, v \in Users : token'[j][v] = token[j][v] \/ token'[j][v] = NoToken
    OBVIOUS
  <2>2. "verify" \in Kinds /\ "reset" \in Kinds
    BY DEF Kinds
  <2>3. ASSUME NEW s \in Requests, NEW j \in Kinds, NEW v \in Users, Carries(s)', j # req'[s].kind
        PROVE  token'[j][v] # req'[s].tok
    <3>1. s # r /\ req'[s] = req[s] /\ Carries(s)
      BY <1>0, <2>3 DEF Carries
    <3>2. req[s].tok \in Tokens /\ token[j][v] # req[s].tok
      BY <2>3, <3>1 DEF IInv, ReqSound, OneKind
    <3>3. QED BY <2>1, <3>1, <3>2
  <2>4. \A v \in Users : token'["verify"][v] # NoToken => token'["verify"][v] # token'["reset"][v]
    BY <2>1, <2>2 DEF IInv, OneKind
  <2>5. QED BY <2>3, <2>4 DEF OneKind
<1>7. ASSUME NEW j \in Kinds, NEW v \in Users PROVE LinkSound(j, v)'
  <2>1. /\ \A s \in Requests \ {r} : s \in Rivals(j, v)' <=> s \in Rivals(j, v)
        /\ r \notin Rivals(j, v)'
        /\ r \in Rivals(j, v) <=> j = k /\ v = u
        /\ Rivals(j, v) \subseteq Requests /\ Rivals(j, v)' \subseteq Requests
    BY <1>0, RivalsEffect DEF At
  <2>2. CASE j = k /\ v = u
    <3>1. CASE u \in blurred'[k]
      BY <2>2, <3>1 DEF LinkSound
    <3>2. CASE u \notin blurred'[k]
      <4>1. Rivals(k, u)' = {}
        BY <2>1, <2>2, <3>2 DEF Contested
      <4>2. LinkSound(k, u)'
        BY <3>2, <4>1 DEF LinkSound
      <4>3. QED BY <2>2, <4>2
    <3>3. QED BY <3>1, <3>2
  <2>3. CASE ~(j = k /\ v = u)
    <3>1. r \notin Rivals(j, v) /\ r \notin Rivals(j, v)'
      BY <2>1, <2>3
    <3>2. Rivals(j, v)' = Rivals(j, v) /\ \A s \in Rivals(j, v) : req'[s] = req[s]
      BY <1>0, <3>1, RivalsKept
    <3>3. /\ LinkSound(j, v) /\ token'[j][v] = token[j][v] /\ mail'[j][v] = mail[j][v]
          /\ used \subseteq used' /\ (v \in blurred[j] => v \in blurred'[j])
      BY <2>3 DEF IInv
    <3>4. QED BY <3>2, <3>3, LinkKept
  <2>4. QED BY <2>2, <2>3
<1>8. QED BY <1>2, <1>3, <1>4, <1>5, <1>6, <1>7 DEF IInv

LEMMA SendMailStep == ASSUME IInv, NEW r \in Requests, SendMail(r) PROVE IInv'
<1>1. PICK k \in Kinds, u \in Users : k = req[r].kind /\ u = req[r].user
  BY DEF SendMail, IInv, TypeOK, RequestStates, ReqSound, At
<1>2. TypeOK /\ req[r].tok \in Tokens /\ At(r, "send") /\ ~At(r, "idle")
  BY DEF SendMail, IInv, ReqSound, Carries, At
<1>3. /\ mail' \in [Kinds -> [Users -> Tokens \union {NoToken}]]
      /\ \A j \in Kinds, v \in Users :
           mail'[j][v] = IF j = k /\ v = u THEN req[r].tok ELSE mail[j][v]
  <2>1. mail' = [mail EXCEPT ![k][u] = req[r].tok] /\ req[r].tok \in Tokens \union {NoToken}
    BY <1>1, <1>2 DEF SendMail
  <2>2. QED BY ONLY <1>2, <2>1, OneMail
<1>4. /\ blurred' \in [Kinds -> SUBSET Users]
      /\ Contested(r) => u \in blurred'[k]
      /\ \A j \in Kinds : blurred[j] \subseteq blurred'[j]
  BY <1>1, <1>2, BlurIfContestedEffect DEF SendMail
<1>5. u \notin blurred'[k] => token[k][u] = req[r].tok
  <2> SUFFICES ASSUME u \notin blurred'[k] PROVE token[k][u] = req[r].tok
    OBVIOUS
  <2>1. u \notin blurred[k] /\ LinkSound(k, u)
    BY <1>4 DEF IInv
  <2>2. r \in Rivals(k, u)
    BY <1>1, <1>2, OwnRival
  <2>3. QED BY <1>2, <2>1, <2>2 DEF LinkSound
<1>6. received' \subseteq Tokens /\ Finish(r) /\ UNCHANGED <<account, token, expired, owner, used>>
  BY <1>2 DEF SendMail, TypeOK
<1>7. /\ account' \in [Users -> {"none", "unverified", "verified"}]
      /\ token' \in [Kinds -> [Users -> Tokens \union {NoToken}]]
  BY <1>2, <1>6 DEF TypeOK
<1>8. u \notin blurred'[k] => mail'[k][u] \in used' \union {NoToken, token'[k][u]}
  BY <1>3, <1>5, <1>6
<1>9. QED
  BY <1>1, <1>2, <1>3, <1>4, <1>6, <1>7, <1>8, EndStep

LEMMA UseStep == ASSUME IInv, NEW r \in Requests, Use(r) PROVE IInv'
<1>1. PICK k \in Kinds, u \in Users : k = req[r].kind /\ u = req[r].user
  BY DEF Use, IInv, TypeOK, RequestStates, ReqSound, At
<1>2. TypeOK /\ req[r].tok \in Tokens /\ Carries(r) /\ At(r, "use") /\ ~At(r, "idle")
  BY DEF Use, IInv, ReqSound, Carries, At
<1>3. /\ token' \in [Kinds -> [Users -> Tokens \union {NoToken}]]
      /\ \A j \in Kinds, v \in Users :
           token'[j][v] = IF j = k /\ v = u THEN NoToken ELSE token[j][v]
  <2>1. token' = [token EXCEPT ![k][u] = NoToken] /\ NoToken \in Tokens \union {NoToken}
    BY <1>1 DEF Use
  <2>2. QED BY ONLY <1>2, <2>1, OneColumn
<1>4. /\ blurred' \in [Kinds -> SUBSET Users]
      /\ Contested(r) => u \in blurred'[k]
      /\ \A j \in Kinds : blurred[j] \subseteq blurred'[j]
  BY <1>1, <1>2, BlurIfContestedEffect DEF Use
<1>5. /\ Finish(r) /\ used' = used \union {req[r].tok}
      /\ UNCHANGED <<expired, received, owner, mail>>
  BY DEF Use
<1>6. /\ account' \in [Users -> {"none", "unverified", "verified"}]
      /\ \A v \in Users : account[v] # "none" => account'[v] # "none"
      /\ mail' \in [Kinds -> [Users -> Tokens \union {NoToken}]]
      /\ received' \subseteq Tokens
  BY <1>1, <1>2, <1>5 DEF Use, TypeOK
<1>7. u \notin blurred'[k] => mail'[k][u] \in used' \union {NoToken, token'[k][u]}
  <2> SUFFICES ASSUME u \notin blurred'[k] PROVE mail[k][u] \in used \union {NoToken, req[r].tok}
    BY <1>5
  <2>1. u \notin blurred[k] /\ LinkSound(k, u)
    BY <1>4 DEF IInv
  <2>2. Rivals(k, u) = {r}
    BY <1>1, <1>4 DEF Contested
  <2>3. QED BY <1>2, <2>1, <2>2 DEF LinkSound
<1>8. QED
  BY <1>1, <1>2, <1>3, <1>4, <1>5, <1>6, <1>7, EndStep

LEMMA FailStep == ASSUME IInv, NEW r \in Requests, Fail(r) PROVE IInv'
<1>1. PICK k \in Kinds, u \in Users : k = req[r].kind /\ u = req[r].user
  BY DEF Fail, IInv, TypeOK, RequestStates, ReqSound, At
<1>2. /\ TypeOK /\ ~At(r, "idle") /\ Finish(r)
      /\ UNCHANGED <<account, token, expired, owner, mail, used>>
  BY DEF Fail, IInv
<1>3. received' \subseteq Tokens
  BY DEF Fail, IInv, TypeOK, ReqSound, Carries, At
<1>4. /\ blurred' \in [Kinds -> SUBSET Users]
      /\ u \in blurred'[k]
      /\ \A j \in Kinds : blurred[j] \subseteq blurred'[j]
  BY <1>1, <1>2, BlurEffect DEF Fail
<1>5. /\ account' \in [Users -> {"none", "unverified", "verified"}]
      /\ token' \in [Kinds -> [Users -> Tokens \union {NoToken}]]
      /\ mail' \in [Kinds -> [Users -> Tokens \union {NoToken}]]
  BY <1>2 DEF TypeOK
<1>6. QED
  BY <1>1, <1>2, <1>3, <1>4, <1>5, EndStep

LEMMA SetTokenStep == ASSUME IInv, NEW r \in Requests, SetToken(r) PROVE IInv'
<1>1. PICK k \in Kinds, u \in Users : k = req[r].kind /\ u = req[r].user
  BY DEF SetToken, IInv, TypeOK, RequestStates, ReqSound, At
<1>2. PICK t \in Fresh :
        /\ owner' = [owner EXCEPT ![t] = u]
        /\ token' = [token EXCEPT ![k][u] = t]
        /\ Become(r, [req[r] EXCEPT !.pc = "send", !.tok = t])
  BY <1>1 DEF SetToken
<1>3. TypeOK /\ req[r] \in RequestStates /\ account[u] # "none" /\ ~At(r, "idle")
  BY <1>1 DEF SetToken, IInv, TypeOK, ReqSound, At
<1>4. PICK state \in RequestStates :
        /\ Become(r, state)
        /\ state.pc = "send" /\ state.kind = k /\ state.user = u /\ state.tok = t
  <2> DEFINE state == [req[r] EXCEPT !.pc = "send", !.tok = t]
  <2>1. state \in RequestStates
    BY <1>3 DEF RequestStates, PCs, Fresh
  <2>2. state.pc = "send" /\ state.kind = k /\ state.user = u /\ state.tok = t
    BY <1>1, <1>3 DEF RequestStates
  <2>3. QED BY <1>2, <2>1, <2>2
<1>5. /\ token' \in [Kinds -> [Users -> Tokens \union {NoToken}]]
      /\ \A j \in Kinds, v \in Users :
           token'[j][v] = IF j = k /\ v = u THEN t ELSE token[j][v]
  <2>1. token' = [token EXCEPT ![k][u] = t] /\ t \in Tokens \union {NoToken}
    BY <1>2 DEF Fresh
  <2>2. QED BY ONLY <1>3, <2>1, OneColumn
<1>6. /\ owner' \in [Tokens -> Users \union {NoUser}]
      /\ owner'[t] = u /\ \A x \in Tokens \ {t} : owner'[x] = owner[x]
  BY <1>2, <1>3, OneOwner
<1>7. /\ blurred' \in [Kinds -> SUBSET Users]
      /\ \A j \in Kinds, v \in Users : v \in blurred[j] /\ v \notin blurred'[j] => j = k /\ v = u
      /\ Rivals(k, u) \ {r} # {} => u \in blurred'[k]
  <2>1. blurred' = [blurred EXCEPT ![k] = IF Contested(r) THEN @ \union {u} ELSE @ \ {u}]
    BY <1>1 DEF SetToken
  <2>2. Rivals(k, u) \ {r} # {} => Contested(r)
    BY <1>1 DEF Contested
  <2>3. QED BY <1>3, <2>1, <2>2 DEF TypeOK
<1>8. /\ UNCHANGED <<account, expired, received, mail, used>>
      /\ account' \in [Users -> {"none", "unverified", "verified"}]
  BY <1>3 DEF SetToken, TypeOK
<1>9. QED
  BY <1>1, <1>3, <1>4, <1>5, <1>6, <1>7, <1>8, FreshStep

LEMMA SignupStep ==
    ASSUME IInv, NEW r \in Requests, NEW u \in Users, NEW t \in Tokens, Signup(r, u, t)
    PROVE  IInv'
<1>1. /\ TypeOK /\ At(r, "idle") /\ t \in Fresh /\ "verify" \in Kinds
      /\ token' = [token EXCEPT !["verify"][u] = t]
      /\ owner' = [owner EXCEPT ![t] = u]
      /\ Become(r, [pc |-> "send", kind |-> "verify", user |-> u, tok |-> t])
      /\ UNCHANGED <<expired, received, mail, used, blurred>>
  BY DEF Signup, IInv, Kinds
<1>2. Rivals("verify", u) = {}
  BY DEF Signup, IInv, ReqSound, Rivals
<1>3. /\ account' \in [Users -> {"none", "unverified", "verified"}]
      /\ account'[u] # "none" /\ \A v \in Users : account[v] # "none" => account'[v] # "none"
      /\ blurred' \in [Kinds -> SUBSET Users]
  BY <1>1 DEF Signup, TypeOK
<1>4. PICK state \in RequestStates :
        /\ Become(r, state)
        /\ state.pc = "send" /\ state.kind = "verify" /\ state.user = u /\ state.tok = t
  BY <1>1 DEF RequestStates, PCs, Kinds
<1>5. /\ token' \in [Kinds -> [Users -> Tokens \union {NoToken}]]
      /\ \A j \in Kinds, v \in Users :
           token'[j][v] = IF j = "verify" /\ v = u THEN t ELSE token[j][v]
  BY <1>1, OneColumn
<1>6. /\ owner' \in [Tokens -> Users \union {NoUser}]
      /\ owner'[t] = u /\ \A x \in Tokens \ {t} : owner'[x] = owner[x]
  BY <1>1, OneOwner
<1>7. /\ \A j \in Kinds, v \in Users : ~(v \in blurred[j] /\ v \notin blurred'[j])
      /\ ~(Rivals("verify", u) \ {r} # {})
  BY <1>1, <1>2
<1>8. QED
  BY <1>1, <1>2, <1>3, <1>4, <1>5, <1>6, <1>7, FreshStep

LEMMA ChangePasswordStep == ASSUME IInv, NEW u \in Users, ChangePassword(u) PROVE IInv'
<1>1. TypeOK /\ "reset" \in Kinds /\ "verify" \in Kinds
  BY DEF IInv, Kinds
<1>2. /\ token' \in [Kinds -> [Users -> Tokens \union {NoToken}]]
      /\ \A j \in Kinds, v \in Users :
           token'[j][v] = IF j = "reset" /\ v = u THEN NoToken ELSE token[j][v]
  <2>1. token' = [token EXCEPT !["reset"][u] = NoToken] /\ NoToken \in Tokens \union {NoToken}
    BY DEF ChangePassword
  <2>2. QED BY ONLY <1>1, <2>1, OneColumn
<1>3. /\ blurred' \in [Kinds -> SUBSET Users]
      /\ Rivals("reset", u) # {} => u \in blurred'["reset"]
      /\ \A j \in Kinds : blurred[j] \subseteq blurred'[j]
  BY <1>1, BlurEffect DEF ChangePassword, TypeOK
<1>4. /\ used' = used \union {token["reset"][u]} /\ token["reset"][u] \in Tokens
      /\ owner[token["reset"][u]] = u
      /\ UNCHANGED <<account, expired, received, req, owner, mail>>
  BY <1>1 DEF ChangePassword, IInv, TypeOK, ColumnSound
<1>5. TypeOK'
  BY <1>1, <1>2, <1>3, <1>4 DEF TypeOK
<1>6. \A s \in Requests : ReqSound(s)'
  BY <1>4 DEF IInv, ReqSound, Carries, At
<1>7. ASSUME NEW j \in Kinds, NEW v \in Users PROVE ColumnSound(j, v)'
  <2>1. CASE j = "reset" /\ v = u
    BY <1>2, <2>1 DEF ColumnSound
  <2>2. CASE ~(j = "reset" /\ v = u)
    <3>1. token'[j][v] = token[j][v] /\ ColumnSound(j, v)
      BY <1>2, <2>2 DEF IInv
    <3>2. token[j][v] # NoToken => token[j][v] # token["reset"][u]
      BY <1>4, <2>2, <3>1 DEF ColumnSound, IInv, OneKind, Kinds
    <3>3. QED BY <1>4, <3>1, <3>2 DEF ColumnSound
  <2>3. QED BY <2>1, <2>2
<1>8. UsedSeen'
  BY <1>4 DEF IInv, UsedSeen
<1>9. OneKind'
  <2>1. \A j \in Kinds, v \in Users : token'[j][v] = token[j][v] \/ token'[j][v] = NoToken
    BY <1>2
  <2>2. ASSUME NEW s \in Requests, NEW j \in Kinds, NEW v \in Users, Carries(s), j # req[s].kind
        PROVE  token'[j][v] # req[s].tok
    <3>1. req[s].tok \in Tokens /\ token[j][v] # req[s].tok
      BY <2>2 DEF IInv, ReqSound, OneKind
    <3>2. QED BY <2>1, <3>1
  <2>3. \A v \in Users : token'["verify"][v] # NoToken => token'["verify"][v] # token'["reset"][v]
    BY <1>1, <2>1 DEF IInv, OneKind
  <2>4. QED BY <1>4, <2>2, <2>3 DEF OneKind, Carries
<1>10. ASSUME NEW j \in Kinds, NEW v \in Users PROVE LinkSound(j, v)'
  <2>1. Rivals(j, v)' = Rivals(j, v) /\ \A s \in Rivals(j, v) : req'[s] = req[s]
    BY <1>4 DEF Rivals, At
  <2>2. LinkSound(j, v) /\ mail'[j][v] = mail[j][v]
    BY <1>4 DEF IInv
  <2>3. CASE j = "reset" /\ v = u
    <3>1. CASE u \in blurred'["reset"]
      BY <2>3, <3>1 DEF LinkSound
    <3>2. CASE u \notin blurred'["reset"]
      <4>1. Rivals("reset", u) = {} /\ u \notin blurred["reset"]
        BY <1>1, <1>3, <3>2
      <4>2. mail'["reset"][u] \in used' \union {NoToken}
        BY <1>4, <2>2, <2>3, <4>1 DEF LinkSound
      <4>3. QED BY <2>1, <2>3, <4>1, <4>2 DEF LinkSound
    <3>3. QED BY <3>1, <3>2
  <2>4. CASE ~(j = "reset" /\ v = u)
    <3>1. token'[j][v] = token[j][v] /\ used \subseteq used' /\ (v \in blurred[j] => v \in blurred'[j])
      BY <1>2, <1>3, <1>4, <2>4
    <3>2. QED BY <2>1, <2>2, <3>1, LinkKept
  <2>5. QED BY <2>3, <2>4
<1>11. QED BY <1>5, <1>6, <1>7, <1>8, <1>9, <1>10 DEF IInv

LEMMA IInvStep == IInv /\ [Next]_vars => IInv'
<1> SUFFICES ASSUME IInv, [Next]_vars PROVE IInv'
  OBVIOUS
<1>1. ASSUME NEW r \in Requests, NEW u \in Users, StartResend(r, u) PROVE IInv'
  <2>1. [pc |-> "set", kind |-> "verify", user |-> u, tok |-> NoToken] \in RequestStates
    BY DEF RequestStates, PCs, Kinds
  <2>2. QED BY <1>1, <2>1, BeginStep DEF StartResend
<1>2. ASSUME NEW r \in Requests, NEW u \in Users, StartForgot(r, u) PROVE IInv'
  <2>1. [pc |-> "set", kind |-> "reset", user |-> u, tok |-> NoToken] \in RequestStates
    BY DEF RequestStates, PCs, Kinds
  <2>2. QED BY <1>2, <2>1, BeginStep DEF StartForgot
<1>3. ASSUME NEW r \in Requests, NEW k \in Kinds, NEW u \in Users, NEW t \in Tokens,
             StartUse(r, k, u, t)
      PROVE  IInv'
  <2>1. [pc |-> "use", kind |-> k, user |-> u, tok |-> t] \in RequestStates
    BY DEF RequestStates, PCs
  <2>2. token[k][u] = t /\ account[u] # "none"
    BY <1>3 DEF StartUse, HeldBy, IInv, ColumnSound
  <2>3. QED BY <1>3, <2>1, <2>2, BeginStep DEF StartUse
<1>4. ASSUME NEW t \in Tokens, Expire(t) PROVE IInv'
  <2>1. TypeOK' /\ UNCHANGED <<account, token, received, req, owner, mail, used, blurred>>
    BY <1>4 DEF Expire, IInv, TypeOK
  <2>2. QED
    BY <2>1 DEF IInv, ReqSound, ColumnSound, UsedSeen, OneKind, LinkSound, Carries, At, Rivals
<1>5. ASSUME UNCHANGED vars PROVE IInv'
  BY <1>5 DEF vars, IInv, TypeOK, ReqSound, ColumnSound, UsedSeen, OneKind, LinkSound, Carries, At,
              Rivals
<1>6. QED
  BY <1>1, <1>2, <1>3, <1>4, <1>5, SignupStep, SetTokenStep, SendMailStep, UseStep, FailStep,
     ChangePasswordStep DEF Next

LEMMA Invariance == Spec => []IInv
BY IInvInit, IInvStep, PTL DEF Spec

-----------------------------------------------------------------------------
\* A request in progress is about a user with a row and, from the moment it has
\* one, carries a token generated for that user; a column holds, if anything, a
\* token generated for its row's user that was never used; and no UPDATE of one
\* column can use up what is in, or on its way to, the other.
LinksAreTheirOwn ==
    /\ \A r \in Requests : ReqSound(r)
    /\ \A k \in Kinds, u \in Users : ColumnSound(k, u)
    /\ OneKind

\* This holds whatever interleaves: a fresh token is written and mailed for the
\* request's own user, and a used one is gone from the row.
THEOREM LinksStayTheirOwn == Spec => [](TypeOK /\ LinksAreTheirOwn)
<1>1. IInv => TypeOK /\ LinksAreTheirOwn
  BY DEF IInv, LinksAreTheirOwn
<1>2. QED BY <1>1, Invariance, PTL

\* A user whose last mail came through alone can use its link: the row still
\* holds that token, unless it was used or given up.
THEOREM LastMailsWork == Spec => []LastMailWorks
<1>1. IInv => LastMailWorks
  BY DEF IInv, LinkSound, LastMailWorks
<1>2. QED BY <1>1, Invariance, PTL

\* Only the request itself changes its record.
LEMMA OwnStep ==
    ASSUME TypeOK, Next, NEW r \in Requests, At(r, "idle"), At(r, "use")'
    PROVE  \E k \in Kinds, u \in Users, t \in Tokens : StartUse(r, k, u, t)
<1>1. req' # req /\ req'[r] # req[r]
  BY DEF At
<1>2. ASSUME NEW s \in Requests, NEW state, Become(s, state) PROVE s = r /\ state = req'[r]
  BY <1>1, <1>2 DEF Become, TypeOK
<1>3. ASSUME NEW s \in Requests, SetToken(s) \/ SendMail(s) \/ Use(s) \/ Fail(s) PROVE FALSE
  <2>1. ~At(s, "idle") /\ \E state : Become(s, state)
    BY <1>3, Zenon DEF SetToken, SendMail, Use, Fail, At, Finish
  <2>2. QED BY <1>2, <2>1
<1>4. ASSUME NEW s \in Requests, NEW u \in Users,
             StartResend(s, u) \/ StartForgot(s, u) \/ \E t \in Tokens : Signup(s, u, t)
      PROVE  FALSE
  <2>1. PICK t : \E state \in {"set", "send"}, k \in Kinds :
          Become(s, [pc |-> state, kind |-> k, user |-> u, tok |-> t])
    BY <1>4 DEF StartResend, StartForgot, Signup, Kinds
  <2>2. PICK state \in {"set", "send"}, k \in Kinds :
          req'[r] = [pc |-> state, kind |-> k, user |-> u, tok |-> t]
    BY <1>2, <2>1
  <2>3. QED BY <2>2 DEF At
<1>5. ~(\E u \in Users : ChangePassword(u)) /\ ~(\E t \in Tokens : Expire(t))
  BY <1>1 DEF ChangePassword, Expire
<1>6. PICK s \in Requests, k \in Kinds, u \in Users, t \in Tokens : StartUse(s, k, u, t)
  BY <1>3, <1>4, <1>5 DEF Next
<1>7. s = r
  BY <1>2, <1>6 DEF StartUse
<1>8. QED BY <1>6, <1>7

\* A link that was used, or given up by a password change, is found by no later
\* request, whatever the requests that had found it before still do.
THEOREM UsedLinksAreDead == Spec => UsedIsNeverFound
<1> DEFINE Never == \A r \in Requests : At(r, "idle") /\ At(r, "use")' => req[r]'.tok \notin used
<1>1. IInv /\ [Next]_vars => [Never]_vars
  <2> SUFFICES ASSUME IInv, Next, NEW r \in Requests, At(r, "idle"), At(r, "use")'
               PROVE  req'[r].tok \notin used
    BY DEF vars
  <2>1. PICK k \in Kinds, u \in Users, t \in Tokens : StartUse(r, k, u, t)
    BY OwnStep DEF IInv
  <2>2. req'[r].tok = t
    BY <2>1 DEF StartUse, Become, IInv, TypeOK
  <2>3. token[k][u] = t /\ t # NoToken
    BY <2>1 DEF StartUse, HeldBy
  <2>4. QED BY <2>2, <2>3 DEF IInv, ColumnSound
<1>2. QED BY <1>1, Invariance, PTL DEF Spec, UsedIsNeverFound
=============================================================================
