-------------------------- MODULE GuardShiftProofs --------------------------
(***************************************************************************)
(* Theorems about the guard app as the client of SessionRotation: it takes *)
(* only steps the server allows, the shift it keeps can be carried on, and *)
(* no idempotency key of the app is ever presented with two tokens.        *)
(***************************************************************************)
EXTENDS GuardShift, SessionProofs

USE DEF past

\* What is in the variables of a rotation and of a sign-in, by their stage.
Shape ==
    /\ rotation = "idle" => call = NoCredentials
    /\ rotation # "idle" => call \in Credentials
    /\ rotation = "answered" /\ reply.outcome = "rotated" => reply.issued \in Tokens
    /\ shift = "granted" => granted.session \in Sessions /\ granted.token \in Tokens
    /\ shift = "saved" => granted \in Credentials
    /\ ~running => rotation = "idle" /\ shift = "idle"

\* Requests the app may present now or later; a sign-in that has saved its
\* credentials has them in hand although the store may be overwritten.
Held == Presentable \cup (IF shift = "saved" THEN {Request(granted)} ELSE {})

\* No key is ahead of the generator, and every record was made by this device.
KeysMinted ==
    /\ \A q \in Held : q.key <= minted
    /\ \A s \in Sessions : \A k \in Keys :
           record[s][k] # NoRecord => k <= minted /\ record[s][k].sameDevice

OneTokenPerKey ==
    /\ \A q, r \in Held : q.session = r.session /\ q.key = r.key => q.token = r.token
    /\ \A r \in Held : Stored(r) = NoRecord \/ Stored(r).token = r.token

\* What the app has in hand is of sessions that were opened,
Opened ==
    /\ store # NoCredentials => session[store.session] # "NONE"
    /\ memory # NoCredentials => session[memory.session] # "NONE"
    /\ rotation # "idle" => session[call.session] # "NONE"
    /\ shift \in {"granted", "saved"} => session[granted.session] # "NONE"

\* so a session being signed in to is not the one a rotation is about; and the
\* reference to the token moves during a rotation only to another session.
Apart ==
    /\ shift \in {"granted", "saved"} =>
           /\ memory # NoCredentials => memory.session # granted.session
           /\ rotation # "idle" => call.session # granted.session
    /\ rotation \in {"sent", "answered", "renewing", "renewed"} /\ memory # NoCredentials
       /\ memory.session = call.session => memory.token = call.token

\* A key just renewed is in the store and in the hands of the rotation only.
Unpresented ==
    rotation = "renewed" =>
        /\ \A q \in late : q.key # call.key
        /\ memory.key # call.key
        /\ shift = "saved" => granted.key # call.key
        /\ store.key = call.key => store = call
        /\ \A s \in Sessions : record[s][call.key] = NoRecord

\* Requests of the app carry the fingerprint of its device.
SentFromHere == \A r \in late : r.sameDevice

GInv ==
    /\ IInv /\ GuardTypeOK /\ Shape /\ SentFromHere
    /\ KeysMinted /\ OneTokenPerKey /\ reply.outcome # "reused"
    /\ Opened /\ Apart /\ Unpresented

LEMMA InitGInv == GuardInit => GInv
<1> SUFFICES ASSUME GuardInit PROVE GInv
  OBVIOUS
<1>1. IInv
  BY InitIInv DEF GuardInit
<1>2. GuardTypeOK /\ Shape
  <2>0. mixed \in BOOLEAN
    BY DEF GuardInit
  <2>1. refusals \in 0..MaxRefusals
    BY RefusalsBounded DEF GuardInit
  <2>2. TypeOK /\ minted \in 0..MaxKeys /\ late \subseteq Requests
    BY <1>1, BoundsPositive DEF GuardInit, IInv
  <2>3. /\ store \in Credentials \cup {NoCredentials} /\ memory \in Credentials \cup {NoCredentials}
        /\ running \in BOOLEAN
    BY DEF GuardInit
  <2> QED
    BY <2>0, <2>1, <2>2, <2>3 DEF GuardInit, GuardTypeOK, Shape
<1>3. Held = {}
  BY DEF GuardInit, Held, Presentable
<1>4. KeysMinted /\ OneTokenPerKey
  BY <1>3 DEF GuardInit, Init, KeysMinted, OneTokenPerKey
<1>5. /\ reply.outcome # "reused" /\ SentFromHere
      /\ Opened /\ Apart /\ Unpresented
  BY DEF GuardInit, NoReply, SentFromHere, Opened, Apart, Unpresented
<1> QED
  BY <1>1, <1>2, <1>4, <1>5 DEF GInv

-----------------------------------------------------------------------------
(* The steps of the server *)

LEMMA RequestTyped == ASSUME NEW c \in Credentials PROVE Request(c) \in Requests
BY DEF Credentials, Request, Requests

LEMMA CredentialsReal == NoCredentials \notin Credentials
BY BoundsPositive DEF NoCredentials, Credentials, Keys

LEMMA HeldTyped == ASSUME GuardTypeOK, Shape PROVE Held \subseteq Requests
<1>1. \A c \in {store, memory, call} \ {NoCredentials} : Request(c) \in Requests
  BY RequestTyped DEF GuardTypeOK, Shape
<1>2. shift = "saved" => Request(granted) \in Requests
  BY RequestTyped DEF Shape
<1> QED
  BY <1>1, <1>2 DEF Held, Presentable, GuardTypeOK

LEMMA ServerStep == ASSUME GInv, GuardNext PROVE [Next]_server
<1>1. CASE Answered
  <2>1. Request(call) \in Requests
    BY <1>1, RequestTyped DEF Answered, GInv, Shape
  <2> QED
    BY <1>1, <2>1 DEF Answered, Next
<1>2. ASSUME NEW r \in late, ServedLate(r) PROVE Next
  BY <1>2 DEF ServedLate, Next, GInv, GuardTypeOK
<1>3. ASSUME NEW s \in Sessions, SignInAnswered(s) PROVE Next
  BY <1>3 DEF SignInAnswered, Next, Others
<1>4. CASE SignOut
  <2>1. memory.session \in Sessions
    BY <1>4 DEF SignOut, GInv, GuardTypeOK, Credentials
  <2> QED
    BY <1>4, <2>1 DEF SignOut, Next, Others
<1>5. CASE (\E s \in Sessions : Revoke(s) \/ Lapse(s)) \/ Bar \/ WindowPasses
  BY <1>5 DEF Next, Others
<1>6. CASE \/ StartRotation \/ Throttled \/ GiveUp \/ SaveRotated \/ AdoptRotated
           \/ Expired \/ ClearExpired \/ RenewalStarts \/ RenewKey \/ AdoptKey
  BY <1>6 DEF StartRotation, Throttled, GiveUp, SaveRotated, AdoptRotated,
              Expired, ClearExpired, RenewalStarts, RenewKey, AdoptKey
<1>7. CASE SaveShift \/ AdoptShift \/ ClearShift \/ Killed \/ Boot
  BY <1>7 DEF SaveShift, AdoptShift, ClearShift, Killed, Boot
<1>8. ASSUME NEW r \in late, Dropped(r) PROVE UNCHANGED server
  BY <1>8 DEF Dropped
<1> QED
  BY <1>1, <1>2, <1>3, <1>4, <1>5, <1>6, <1>7, <1>8 DEF GuardNext


-----------------------------------------------------------------------------
(* Types and shapes of the app's variables *)

LEMMA NewKeyTyped ==
    ASSUME GuardTypeOK, Mint, NEW s \in Sessions, NEW n \in Tokens
    PROVE  WithNewKey(s, n) \in Credentials /\ minted' \in 0..MaxKeys
BY BoundsPositive DEF GuardTypeOK, Mint, WithNewKey, Credentials, Keys

LEMMA TypesStep ==
    ASSUME GInv, GuardNext, IInv'
    PROVE  GuardTypeOK' /\ Shape'
<1> USE DEF RotationEnds, ShiftStands
<1>0. GuardTypeOK /\ Shape /\ IInv /\ TypeOK'
  BY DEF GInv, IInv
<1>1. CASE StartRotation
  BY <1>0, <1>1 DEF StartRotation, GuardTypeOK, Shape
<1>2. CASE Answered
  <2>1. Request(call) \in Requests
    BY <1>0, <1>2, RequestTyped DEF Answered, Shape
  <2>2. reply'.outcome = "rotated" => reply'.issued \in Tokens
    BY <1>2, <2>1, RotatedIsToken DEF Answered
  <2> QED
    BY <1>0, <1>2, <2>2 DEF Answered, GuardTypeOK, Shape
<1>3. CASE Throttled
  BY <1>0, <1>3, RefusalsBounded DEF Throttled, Reply, GuardTypeOK, Shape
<1>4. CASE GiveUp
  BY <1>0, <1>4, RequestTyped DEF GiveUp, GuardTypeOK, Shape
<1>5. ASSUME NEW r \in late, ServedLate(r) \/ Dropped(r) PROVE GuardTypeOK' /\ Shape'
  BY <1>0, <1>5 DEF ServedLate, Dropped, app, GuardTypeOK, Shape
<1>6. CASE SaveRotated
  <2>1. call \in Credentials /\ reply.issued \in Tokens
    BY <1>0, <1>6 DEF SaveRotated, Shape
  <2>2. store' \in Credentials /\ minted' \in 0..MaxKeys
    BY <1>0, <1>6, <2>1, NewKeyTyped DEF SaveRotated, Credentials
  <2> QED
    BY <1>0, <1>6, <2>2 DEF SaveRotated, GuardTypeOK, Shape
<1>7. CASE AdoptRotated
  BY <1>0, <1>7 DEF AdoptRotated, GuardTypeOK, Shape
<1>8. CASE Expired \/ ClearExpired
  BY <1>0, <1>8 DEF Expired, ClearExpired, GuardTypeOK, Shape
<1>9. CASE RenewKey
  <2>1. call \in Credentials
    BY <1>0, <1>9 DEF RenewKey, Shape
  <2>2. Mint => WithNewKey(call.session, call.token) \in Credentials /\ minted' \in 0..MaxKeys
    BY <1>0, <2>1, NewKeyTyped DEF Credentials
  <2> QED
    BY <1>0, <1>9, <2>2 DEF RenewKey, GuardTypeOK, Shape
<1>10. CASE AdoptKey
  <2>1. memory # NoCredentials => [memory EXCEPT !.key = call.key] \in Credentials
    BY <1>0, <1>10 DEF AdoptKey, GuardTypeOK, Shape, Credentials
  <2> QED
    BY <1>0, <1>10, <2>1 DEF AdoptKey, GuardTypeOK, Shape
<1>11. ASSUME NEW s \in Sessions, SignInAnswered(s) PROVE GuardTypeOK' /\ Shape'
  <2>1. granted'.session = s /\ granted'.token = 1 /\ 1 \in Tokens
    BY <1>11, BoundsPositive DEF SignInAnswered, NoCredentials, Tokens
  <2> QED
    BY <1>0, <1>11, <2>1 DEF SignInAnswered, GuardTypeOK, Shape
<1>12. CASE SaveShift
  <2>1. store' \in Credentials /\ minted' \in 0..MaxKeys
    BY <1>0, <1>12, NewKeyTyped DEF SaveShift, Shape
  <2> QED
    BY <1>0, <1>12, <2>1 DEF SaveShift, GuardTypeOK, Shape
<1>13. CASE AdoptShift
  BY <1>0, <1>13 DEF AdoptShift, GuardTypeOK, Shape
<1>14. CASE SignOut \/ ClearShift
  BY <1>0, <1>14 DEF SignOut, ClearShift, GuardTypeOK, Shape
<1>15. CASE Killed
  BY <1>0, <1>15, RequestTyped DEF Killed, GuardTypeOK, Shape
<1>16. CASE Boot
  BY <1>0, <1>16 DEF Boot, GuardTypeOK, Shape
<1>17. CASE UNCHANGED <<app, late, past>>
  BY <1>0, <1>17 DEF app, GuardTypeOK, Shape
<1>18. CASE RenewalStarts
  BY <1>0, <1>18 DEF RenewalStarts, GuardTypeOK, Shape
<1> QED
  BY <1>1, <1>2, <1>3, <1>4, <1>5, <1>6, <1>7, <1>8, <1>9, <1>10, <1>11, <1>12,
     <1>13, <1>14, <1>15, <1>16, <1>17, <1>18 DEF GuardNext

-----------------------------------------------------------------------------
(* Keys: what a step may add to the requests in hand *)

KeysAgree == KeysMinted /\ OneTokenPerKey

\* A step that puts nothing new in hand and changes no record.
LEMMA NothingNew ==
    ASSUME KeysAgree, Held' \subseteq Held, minted' = minted, record' = record
    PROVE  KeysAgree'
BY DEF KeysAgree, KeysMinted, OneTokenPerKey, Stored

\* A step that generates a key and puts one request under it in hand.
LEMMA NewKeyInHand ==
    ASSUME KeysAgree, GuardTypeOK, Shape, NEW x \in Requests, x.key = minted + 1,
           minted' = minted + 1, Held' \subseteq Held \cup {x}, record' = record
    PROVE  KeysAgree'
<1>1. minted \in Nat /\ \A q \in Held : q.key \in Nat /\ q.key <= minted
  BY BoundsPositive, HeldTyped DEF GuardTypeOK, KeysAgree, KeysMinted, Requests, Keys
<1>2. \A s \in Sessions, k \in Keys :
          record[s][k] # NoRecord => k \in Nat /\ k <= minted /\ record[s][k].sameDevice
  BY BoundsPositive DEF KeysAgree, KeysMinted, Keys
<1>3. \A q \in Held' : q.key <= minted'
  BY <1>1
<1>4. \A s \in Sessions, k \in Keys :
          record'[s][k] # NoRecord => k <= minted' /\ record'[s][k].sameDevice
  BY <1>1, <1>2
<1>5. x.session \in Sessions /\ x.key \in Keys
  BY DEF Requests
<1>6. Stored(x) = NoRecord
  BY <1>1, <1>2, <1>5 DEF Stored
<1>7. \A q, r \in Held' : q.session = r.session /\ q.key = r.key => q.token = r.token
  BY <1>1 DEF KeysAgree, OneTokenPerKey
<1>8. \A r \in Held' : Stored(r)' = NoRecord \/ Stored(r)'.token = r.token
  BY <1>6 DEF KeysAgree, OneTokenPerKey, Stored
<1> QED
  BY <1>3, <1>4, <1>7, <1>8 DEF KeysAgree, KeysMinted, OneTokenPerKey

\* A request in hand reaches the server; its answer is never "reused".
LEMMA ServedInHand ==
    ASSUME KeysAgree, GuardTypeOK, Shape, NEW r \in Held, r.sameDevice, Refresh(r),
           Held' \subseteq Held, minted' = minted
    PROVE  KeysAgree' /\ ReplyIn(record', r).outcome # "reused"
<1>1. r \in Requests /\ r.session \in Sessions /\ r.key \in Keys
  BY HeldTyped DEF Requests
<1>2. /\ ~Fresh(r) => record' = record
      /\ Fresh(r) => record'[r.session][r.key].token = r.token
                  /\ record'[r.session][r.key].sameDevice = r.sameDevice
                  /\ record'[r.session][r.key].outcome \in {"rotated", "refused", "blocked"}
      /\ \A s \in Sessions : \A k \in Keys :
             s # r.session \/ k # r.key => record'[s][k] = record[s][k]
  BY <1>1, RefreshRecords DEF GuardTypeOK
<1>3. r.key <= minted
  BY DEF KeysAgree, KeysMinted
<1>4. ~Fresh(r) => record[r.session][r.key].token = r.token
                /\ record[r.session][r.key].sameDevice
  BY <1>1 DEF KeysAgree, KeysMinted, OneTokenPerKey, Fresh, Stored
<1>5. KeysMinted'
  BY <1>1, <1>2, <1>3, <1>4 DEF KeysAgree, KeysMinted
<1>6. \A q \in Held : q.session = r.session /\ q.key = r.key => q.token = r.token
  BY DEF KeysAgree, OneTokenPerKey
<1>7. \A q \in Held' : Stored(q)' = NoRecord \/ Stored(q)'.token = q.token
  <2> SUFFICES ASSUME NEW q \in Held'
               PROVE  record'[q.session][q.key] = NoRecord
                      \/ record'[q.session][q.key].token = q.token
    BY DEF Stored
  <2>1. q \in Held /\ q.session \in Sessions /\ q.key \in Keys
    BY HeldTyped DEF Requests
  <2>2. CASE q.session = r.session /\ q.key = r.key
    BY <1>2, <1>4, <1>6, <2>1, <2>2
  <2>3. CASE ~(q.session = r.session /\ q.key = r.key)
    BY <1>2, <2>1, <2>3 DEF KeysAgree, OneTokenPerKey, Stored
  <2> QED
    BY <2>2, <2>3
<1>8. OneTokenPerKey'
  BY <1>7 DEF KeysAgree, OneTokenPerKey
<1>9. record'[r.session][r.key].token = r.token /\ record'[r.session][r.key].sameDevice = r.sameDevice
  BY <1>1, <1>2, <1>4 DEF GuardTypeOK, TypeOK, Requests, Records, NoRecord
<1>10. record'[r.session][r.key].outcome # "reused"
  <2>1. CASE Fresh(r)
    BY <1>2, <2>1
  <2>2. CASE ~Fresh(r)
    <3>1. record[r.session][r.key] \in Records \cup {NoRecord}
      BY <1>1 DEF GuardTypeOK, TypeOK
    <3>2. record[r.session][r.key].outcome # "reused"
      BY <3>1 DEF Records, NoRecord
    <3> QED
      BY <1>2, <2>2, <3>2
  <2> QED
    BY <2>1, <2>2
<1> QED
  BY <1>5, <1>8, <1>9, <1>10 DEF KeysAgree, ReplyIn, Reply

-----------------------------------------------------------------------------
(* Keys: the steps *)

InHand(c) ==
    \/ c # NoCredentials /\ c \in {store, memory, call}
    \/ shift = "saved" /\ c = granted

LEMMA HeldIsInHand ==
    /\ \A q : q \in Held <=> q \in late \/ \E c : InHand(c) /\ q = Request(c)
    /\ \A q : q \in Held' <=> q \in late' \/ \E c : InHand(c)' /\ q = Request(c)
<1>1. ASSUME NEW q PROVE q \in Held <=> q \in late \/ \E c : InHand(c) /\ q = Request(c)
  <2>1. q \in Presentable <=>
            q \in late \/ \E c \in {store, memory, call} \ {NoCredentials} : q = Request(c)
    BY DEF Presentable
  <2>2. q \in Held <=> q \in Presentable \/ (shift = "saved" /\ q = Request(granted))
    BY DEF Held
  <2> QED
    BY <2>1, <2>2 DEF InHand
<1>2. ASSUME NEW q PROVE q \in Held' <=> q \in late' \/ \E c : InHand(c)' /\ q = Request(c)
  <2>1. q \in Presentable' <=>
            q \in late' \/ \E c \in {store', memory', call'} \ {NoCredentials} : q = Request(c)
    BY DEF Presentable
  <2>2. q \in Held' <=> q \in Presentable' \/ (shift' = "saved" /\ q = Request(granted'))
    BY DEF Held
  <2> QED
    BY <2>1, <2>2 DEF InHand
<1> QED
  BY <1>1, <1>2

\* A step after which everything in hand was in hand before.
LEMMA HandShrinks ==
    ASSUME late' \subseteq Held, \A c : InHand(c)' => InHand(c)
    PROVE  Held' \subseteq Held
BY HeldIsInHand

\* A step after which one more set of credentials may be in hand.
LEMMA HandGrows ==
    ASSUME NEW x, late' \subseteq Held, \A c : InHand(c)' => InHand(c) \/ c = x
    PROVE  Held' \subseteq Held \cup {Request(x)}
BY HeldIsInHand

\* Credentials under a new key come into hand.
LEMMA NewCredentials ==
    ASSUME GInv, NEW s \in Sessions, NEW n \in Tokens, Mint, UNCHANGED <<late, record>>,
           \A c : InHand(c)' => InHand(c) \/ c = WithNewKey(s, n)
    PROVE  KeysAgree'
<1> DEFINE x == Request(WithNewKey(s, n))
<1>1. KeysAgree /\ GuardTypeOK /\ Shape
  BY DEF GInv, KeysAgree
<1>2. WithNewKey(s, n) \in Credentials
  BY <1>1, NewKeyTyped
<1>3. x \in Requests /\ x.key = minted + 1
  BY <1>2, RequestTyped DEF Request, WithNewKey
<1>4. late' \subseteq Held
  BY HeldIsInHand
<1>5. Held' \subseteq Held \cup {x}
  BY <1>4, HandGrows
<1> QED
  BY <1>1, <1>3, <1>5, NewKeyInHand DEF Mint

\* The key renewed is put beside the token in memory: of the same session, then
\* it is the token the key was renewed for; of another one, where nothing has
\* been presented under it.
LEMMA AdoptKeyAgrees == ASSUME GInv, AdoptKey, memory # NoCredentials PROVE KeysAgree'
<1> DEFINE m == Request(memory')
<1>1. /\ KeysAgree /\ GuardTypeOK /\ Shape
      /\ memory \in Credentials /\ call \in Credentials /\ rotation = "renewed"
  BY DEF GInv, KeysAgree, AdoptKey, GuardTypeOK, Shape
<1>2. /\ m.session = memory.session /\ m.token = memory.token /\ m.key = call.key
      /\ m.session \in Sessions /\ m.key \in Keys
  BY <1>1 DEF AdoptKey, Request, Credentials
<1>3. Request(call) \in Held /\ Request(call).key = call.key
  <2>1. InHand(call)
    BY <1>1, CredentialsReal DEF InHand
  <2> QED
    BY <2>1, HeldIsInHand DEF Request
<1>4. Held' \subseteq Held \cup {m}
  <2>1. late' \subseteq Held
    BY HeldIsInHand DEF AdoptKey
  <2>2. \A c : InHand(c)' => InHand(c) \/ c = memory'
    BY DEF AdoptKey, InHand, RotationEnds
  <2> QED
    BY <2>1, <2>2, HandGrows
<1> HIDE DEF m
<1>5. m.key <= minted
  BY <1>1, <1>2, <1>3 DEF KeysAgree, KeysMinted
<1>6. record[m.session][m.key] = NoRecord
  BY <1>1, <1>2 DEF GInv, Unpresented
<1>7. \A q \in Held : q.key = call.key => q.session = call.session /\ q.token = call.token
  BY <1>1, HeldIsInHand DEF GInv, Unpresented, InHand, Request
<1>8. m.session = call.session => m.token = call.token
  BY <1>1, <1>2, CredentialsReal DEF GInv, Apart
<1>9. record' = record /\ minted' = minted
  BY DEF AdoptKey, server
<1>10. KeysMinted'
  BY <1>1, <1>4, <1>5, <1>9 DEF KeysAgree, KeysMinted
<1>11. OneTokenPerKey'
  <2>1. \A q, r \in Held' : q.session = r.session /\ q.key = r.key => q.token = r.token
    BY <1>1, <1>2, <1>4, <1>7, <1>8 DEF KeysAgree, OneTokenPerKey
  <2>2. \A r \in Held' : Stored(r)' = NoRecord \/ Stored(r)'.token = r.token
    BY <1>1, <1>4, <1>6, <1>9 DEF KeysAgree, OneTokenPerKey, Stored
  <2> QED
    BY <2>1, <2>2 DEF OneTokenPerKey
<1> QED
  BY <1>10, <1>11 DEF KeysAgree

LEMMA KeysStep ==
    ASSUME GInv, GuardNext
    PROVE  KeysAgree' /\ reply'.outcome # "reused"
<1> USE DEF RotationEnds, ShiftStands
<1>0. /\ KeysAgree /\ GuardTypeOK /\ Shape /\ reply.outcome # "reused"
      /\ NoReply.outcome # "reused"
  BY DEF GInv, KeysAgree, NoReply
<1> DEFINE Kept == late' \subseteq Held /\ \A c : InHand(c)' => InHand(c)
<1>1. ASSUME Kept, UNCHANGED <<minted, record>> PROVE KeysAgree'
  BY <1>0, <1>1, HandShrinks, NothingNew
<1>2. late \subseteq Held /\ (call # NoCredentials => Request(call) \in Held)
  BY HeldIsInHand DEF InHand
<1>3. call \in Credentials => call # NoCredentials
  BY CredentialsReal
<1>4. ASSUME NEW r \in Held, r.sameDevice, Refresh(r), Kept, minted' = minted
      PROVE  KeysAgree' /\ ReplyIn(record', r).outcome # "reused"
  BY <1>0, <1>4, HandShrinks, ServedInHand
<1>5. CASE StartRotation
  BY <1>0, <1>1, <1>2, <1>5 DEF StartRotation, InHand, server
<1>6. CASE Answered
  <2>1. Request(call) \in Held /\ Request(call).sameDevice
    BY <1>0, <1>2, <1>3, <1>6 DEF Answered, Shape, Request
  <2>2. Kept
    BY <1>2, <1>6 DEF Answered, InHand
  <2> QED
    BY <1>4, <1>6, <2>1, <2>2 DEF Answered
<1>7. CASE Throttled
  BY <1>0, <1>1, <1>2, <1>7 DEF Throttled, Reply, InHand, server
<1>8. CASE GiveUp
  <2>1. Kept
    BY <1>0, <1>2, <1>3, <1>8 DEF GiveUp, Shape, InHand
  <2> QED
    BY <1>0, <1>1, <1>8, <2>1 DEF GiveUp, server
<1>9. ASSUME NEW r \in late, ServedLate(r) PROVE KeysAgree' /\ reply'.outcome # "reused"
  <2>1. r \in Held /\ r.sameDevice
    BY <1>2, <1>9 DEF ServedLate, GInv, SentFromHere
  <2>2. Kept
    BY <1>2, <1>9 DEF ServedLate, app, InHand
  <2> QED
    BY <1>0, <1>4, <1>9, <2>1, <2>2 DEF ServedLate, app
<1>10. ASSUME NEW r \in late, Dropped(r) PROVE KeysAgree' /\ reply'.outcome # "reused"
  BY <1>0, <1>1, <1>2, <1>10 DEF Dropped, app, server, InHand
<1>11. CASE SaveRotated
  <2>1. call.session \in Sessions /\ reply.issued \in Tokens
    BY <1>0, <1>11 DEF SaveRotated, Shape, Credentials
  <2>2. \A c : InHand(c)' => InHand(c) \/ c = WithNewKey(call.session, reply.issued)
    BY <1>11 DEF SaveRotated, InHand
  <2> QED
    BY <1>0, <1>11, <2>1, <2>2, NewCredentials DEF SaveRotated, server
<1>12. CASE AdoptRotated
  BY <1>0, <1>1, <1>2, <1>12 DEF AdoptRotated, InHand, server
<1>13. CASE Expired \/ ClearExpired
  BY <1>0, <1>1, <1>2, <1>13 DEF Expired, ClearExpired, InHand, server
<1>14. CASE RenewKey
  <2>1. call.session \in Sessions /\ call.token \in Tokens
    BY <1>0, <1>14 DEF RenewKey, Shape, Credentials
  <2>2. \A c : InHand(c)' => InHand(c) \/ c = WithNewKey(call.session, call.token)
    BY <1>14 DEF RenewKey, InHand
  <2> QED
    BY <1>0, <1>14, <2>1, <2>2, NewCredentials DEF RenewKey, server
<1>15. CASE AdoptKey
  <2>1. CASE memory = NoCredentials
    BY <1>0, <1>1, <1>2, <1>15, <2>1 DEF AdoptKey, InHand, server
  <2>2. CASE memory # NoCredentials
    BY <1>0, <1>15, <2>2, AdoptKeyAgrees DEF AdoptKey
  <2> QED
    BY <2>1, <2>2
<1>16. ASSUME NEW s \in Sessions, SignInAnswered(s) PROVE KeysAgree' /\ reply'.outcome # "reused"
  BY <1>0, <1>1, <1>2, <1>16 DEF SignInAnswered, SignIn, InHand
<1>17. CASE SaveShift
  <2>1. granted.session \in Sessions /\ granted.token \in Tokens
    BY <1>0, <1>17 DEF SaveShift, Shape
  <2>2. \A c : InHand(c)' => InHand(c) \/ c = WithNewKey(granted.session, granted.token)
    BY <1>17 DEF SaveShift, InHand
  <2> QED
    BY <1>0, <1>17, <2>1, <2>2, NewCredentials DEF SaveShift, server
<1>18. CASE AdoptShift
  BY <1>0, <1>1, <1>2, <1>18 DEF AdoptShift, InHand, server
<1>19. CASE SignOut \/ ClearShift
  BY <1>0, <1>1, <1>2, <1>19 DEF SignOut, ClearShift, Revoke, InHand, server
<1>20. CASE Killed
  <2>1. Kept
    BY <1>0, <1>2, <1>3, <1>20 DEF Killed, Shape, InHand
  <2> QED
    BY <1>0, <1>1, <1>20, <2>1 DEF Killed, server
<1>21. CASE Boot
  BY <1>0, <1>1, <1>2, <1>21 DEF Boot, InHand, server
<1>22. CASE /\ (\E s \in Sessions : Revoke(s) \/ Lapse(s)) \/ Bar \/ WindowPasses
            /\ UNCHANGED <<app, late, past>>
  BY <1>0, <1>1, <1>2, <1>22 DEF Revoke, Lapse, Bar, WindowPasses, app, InHand
<1>23. CASE RenewalStarts
  BY <1>0, <1>1, <1>2, <1>23 DEF RenewalStarts, InHand, server
<1> QED
  BY <1>5, <1>6, <1>7, <1>8, <1>9, <1>10, <1>11, <1>12, <1>13, <1>14, <1>15, <1>16,
     <1>17, <1>18, <1>19, <1>20, <1>21, <1>22, <1>23 DEF GuardNext

-----------------------------------------------------------------------------
(* Sessions in hand *)

LEMMA SentStep == ASSUME GInv, GuardNext PROVE SentFromHere'
<1>1. late' \subseteq late \cup {Request(call)}
  BY DEF GuardNext, StartRotation, Answered, Throttled, GiveUp, ServedLate, Dropped,
         SaveRotated, AdoptRotated, Expired, ClearExpired, RenewalStarts, RenewKey, AdoptKey,
         SignInAnswered, SaveShift, AdoptShift, SignOut, ClearShift, Killed, Boot
<1> QED
  BY <1>1 DEF GInv, SentFromHere, Request

LEMMA OpenedStep ==
    ASSUME GInv, GuardNext, IInv' PROVE Opened'
<1> USE DEF RotationEnds, ShiftStands
<1>0. GuardTypeOK /\ Shape /\ Opened /\ IInv
  BY DEF GInv
<1>1. \A s \in Sessions : session[s] # "NONE" => session'[s] # "NONE"
  BY <1>0, ServerStep, StaysOpened
<1> DEFINE Real(c) == c # NoCredentials => c.session \in Sessions /\ session[c.session] # "NONE"
<1>3. /\ Real(store) /\ Real(memory) /\ (rotation # "idle" => Real(call))
      /\ shift \in {"granted", "saved"} =>
             granted.session \in Sessions /\ session[granted.session] # "NONE"
  BY <1>0 DEF GuardTypeOK, Shape, Opened, Credentials
<1>4. rotation # "idle" => call.session \in Sessions /\ session[call.session] # "NONE"
  BY <1>0 DEF Shape, Opened, Credentials
<1>5. ASSUME UNCHANGED <<store, memory, rotation, call, shift, granted>> PROVE Opened'
  BY <1>1, <1>3, <1>4, <1>5 DEF Opened
<1>6. CASE StartRotation
  BY <1>1, <1>3, <1>6 DEF StartRotation, Opened
<1>7. CASE Answered \/ Throttled \/ GiveUp
  BY <1>1, <1>3, <1>4, <1>7 DEF Answered, Throttled, GiveUp, Opened
<1>8. ASSUME NEW r \in late, ServedLate(r) \/ Dropped(r) PROVE Opened'
  BY <1>5, <1>8 DEF ServedLate, Dropped, app
<1>9. CASE SaveRotated \/ RenewKey
  BY <1>1, <1>3, <1>4, <1>9 DEF SaveRotated, RenewKey, WithNewKey, Opened
<1>10. CASE AdoptRotated \/ Expired \/ ClearExpired \/ RenewalStarts
  BY <1>1, <1>3, <1>4, <1>10 DEF AdoptRotated, Expired, ClearExpired, RenewalStarts, Opened
<1>11. CASE AdoptKey
  <2>1. memory # NoCredentials => memory'.session = memory.session
    BY <1>0, <1>11 DEF AdoptKey, GuardTypeOK, Credentials
  <2> QED
    BY <1>1, <1>3, <1>11, <2>1 DEF AdoptKey, Opened
<1>12. ASSUME NEW s \in Sessions, SignInAnswered(s) PROVE Opened'
  <2>1. granted'.session = s /\ session'[s] = "ACTIVE"
    BY <1>0, <1>12 DEF SignInAnswered, SignIn, NoCredentials, GuardTypeOK, TypeOK
  <2> QED
    BY <1>1, <1>3, <1>4, <1>12, <2>1 DEF SignInAnswered, Opened
<1>13. CASE SaveShift \/ AdoptShift
  BY <1>1, <1>3, <1>4, <1>13 DEF SaveShift, AdoptShift, WithNewKey, Opened
<1>14. CASE SignOut \/ ClearShift
  BY <1>1, <1>3, <1>4, <1>14 DEF SignOut, ClearShift, Opened
<1>15. CASE Killed \/ Boot
  BY <1>1, <1>3, <1>4, <1>15 DEF Killed, Boot, Opened
<1>16. CASE UNCHANGED <<app, late, past>>
  BY <1>5, <1>16 DEF app
<1> QED
  BY <1>6, <1>7, <1>8, <1>9, <1>10, <1>11, <1>12, <1>13, <1>14, <1>15, <1>16
     DEF GuardNext

LEMMA ApartStep ==
    ASSUME GInv, GuardNext PROVE Apart'
<1> USE DEF RotationEnds, ShiftStands
<1>0. GuardTypeOK /\ Shape /\ Opened /\ Apart
  BY DEF GInv
<1>1. ASSUME UNCHANGED <<memory, rotation, call, shift, granted>> PROVE Apart'
  BY <1>0, <1>1 DEF Apart
<1>2. CASE StartRotation \/ Answered \/ Throttled \/ GiveUp
  BY <1>0, <1>2 DEF StartRotation, Answered, Throttled, GiveUp, Apart
<1>3. ASSUME NEW r \in late, ServedLate(r) \/ Dropped(r) PROVE Apart'
  BY <1>1, <1>3 DEF ServedLate, Dropped, app
<1>4. CASE SaveRotated \/ RenewKey
  BY <1>0, <1>4 DEF SaveRotated, RenewKey, WithNewKey, Apart
<1>5. CASE AdoptRotated \/ Expired \/ ClearExpired \/ RenewalStarts
  BY <1>0, <1>5 DEF AdoptRotated, Expired, ClearExpired, RenewalStarts, Apart
<1>6. CASE AdoptKey
  <2>1. memory # NoCredentials => memory'.session = memory.session
    BY <1>0, <1>6 DEF AdoptKey, GuardTypeOK, Credentials
  <2> QED
    BY <1>0, <1>6, <2>1 DEF AdoptKey, Apart
<1>7. ASSUME NEW s \in Sessions, SignInAnswered(s) PROVE Apart'
  <2>1. granted'.session = s /\ (rotation # "idle" => call.session # s)
    BY <1>0, <1>7 DEF SignInAnswered, SignIn, NoCredentials, Opened
  <2> QED
    BY <1>0, <1>7, <2>1 DEF SignInAnswered, Apart
<1>8. CASE SaveShift \/ AdoptShift
  BY <1>0, <1>8 DEF SaveShift, AdoptShift, WithNewKey, Apart
<1>9. CASE SignOut \/ ClearShift \/ Killed
  BY <1>0, <1>9 DEF SignOut, ClearShift, Killed, Apart
<1>10. CASE Boot
  BY <1>0, <1>10 DEF Boot, Shape, Apart
<1>11. CASE UNCHANGED <<app, late, past>>
  BY <1>1, <1>11 DEF app
<1> QED
  BY <1>2, <1>3, <1>4, <1>5, <1>6, <1>7, <1>8, <1>9, <1>10, <1>11 DEF GuardNext

LEMMA UnpresentedStep ==
    ASSUME GInv, GuardNext PROVE Unpresented'
<1> USE DEF RotationEnds, ShiftStands
<1>0. /\ KeysAgree /\ GuardTypeOK /\ Shape /\ Unpresented /\ minted \in Nat
  BY BoundsPositive DEF GInv, KeysAgree, GuardTypeOK
<1>1. CASE rotation # "renewed" /\ rotation' = "renewed"
  <2>0. RenewKey
    BY <1>1
       DEF GuardNext, StartRotation, Answered, Throttled, GiveUp, ServedLate, Dropped,
           SaveRotated, AdoptRotated, Expired, ClearExpired, RenewalStarts, AdoptKey, app,
           SignInAnswered, SaveShift, AdoptShift, SignOut, ClearShift, Killed, Boot
  <2>1. RenewKey /\ call'.key = minted + 1 /\ store' = call' /\ minted + 1 \in Keys
    BY <1>0, <1>1, <2>0, BoundsPositive DEF RenewKey, WithNewKey, Mint, Keys
  <2>2. \A q \in Held : q.key # minted + 1
    BY <1>0, HeldTyped DEF KeysAgree, KeysMinted, Requests, Keys
  <2>3. \A c : InHand(c) => c.key # minted + 1
    <3> SUFFICES ASSUME NEW c, InHand(c) PROVE c.key # minted + 1
      OBVIOUS
    <3>1. Request(c) \in Held
      BY HeldIsInHand
    <3> QED
      BY <2>2, <3>1 DEF Request
  <2>4. memory.key # minted + 1 /\ (shift = "saved" => granted.key # minted + 1)
    <3>1. NoCredentials.key # minted + 1
      BY <1>0 DEF NoCredentials
    <3> QED
      BY <2>3, <3>1 DEF InHand
  <2>5. \A s \in Sessions : record[s][minted + 1] = NoRecord
    BY <1>0, <2>1 DEF KeysAgree, KeysMinted
  <2>6. UNCHANGED <<memory, shift, granted, late, record>>
    BY <2>1 DEF RenewKey, server
  <2>7. late \subseteq Held
    BY HeldIsInHand
  <2> QED
    BY <2>1, <2>2, <2>4, <2>5, <2>6, <2>7 DEF Unpresented
<1>2. CASE rotation = "renewed" /\ rotation' = "renewed"
  <2>1. call \in Credentials /\ call.key \in Keys /\ call.key <= minted /\ call.key \in Nat
    <3>1. call \in Credentials /\ InHand(call)
      BY <1>0, <1>2, CredentialsReal DEF Shape, InHand
    <3>2. Request(call) \in Held
      BY <3>1, HeldIsInHand
    <3> QED
      BY <1>0, <3>1, <3>2 DEF KeysAgree, KeysMinted, Request, Credentials, Keys
  <2>2. ASSUME NEW r \in late, ServedLate(r) PROVE Unpresented'
    <3>1. r \in Requests /\ r.key # call.key
      BY <1>0, <1>2, <2>2 DEF GuardTypeOK, Unpresented
    <3>2. \A s \in Sessions : record'[s][call.key] = record[s][call.key]
      BY <1>0, <2>1, <2>2, <3>1, RefreshRecords DEF ServedLate, GuardTypeOK
    <3> QED
      BY <1>0, <1>2, <2>2, <3>2 DEF ServedLate, app, Unpresented
  <2>3. ASSUME NEW r \in late, Dropped(r) PROVE Unpresented'
    BY <1>0, <1>2, <2>3 DEF Dropped, app, server, Unpresented
  <2>4. ASSUME NEW s \in Sessions, SignInAnswered(s) PROVE Unpresented'
    BY <1>0, <1>2, <2>4 DEF SignInAnswered, SignIn, Unpresented
  <2>5. CASE SaveShift
    BY <1>0, <1>2, <2>1, <2>5 DEF SaveShift, Mint, WithNewKey, server, Unpresented
  <2>6. CASE AdoptShift
    BY <1>0, <1>2, <2>6 DEF AdoptShift, server, Unpresented
  <2>7. CASE SignOut \/ ClearShift
    <3>1. NoCredentials.key # call.key
      BY <2>1 DEF NoCredentials, Keys
    <3> QED
      BY <1>0, <1>2, <2>7, <3>1 DEF SignOut, ClearShift, Revoke, server, Unpresented
  <2>8. CASE /\ (\E s \in Sessions : Revoke(s) \/ Lapse(s)) \/ Bar \/ WindowPasses
             /\ UNCHANGED <<app, late, past>>
    BY <1>0, <1>2, <2>8 DEF Revoke, Lapse, Bar, WindowPasses, app, Unpresented
  <2>9. running
    BY <1>0, <1>2 DEF Shape
  <2> QED
    BY <1>2, <2>2, <2>3, <2>4, <2>5, <2>6, <2>7, <2>8, <2>9
       DEF GuardNext, StartRotation, Answered, Throttled, GiveUp, SaveRotated, AdoptRotated,
           Expired, ClearExpired, RenewalStarts, RenewKey, AdoptKey, Killed, Boot
<1>3. CASE rotation' # "renewed"
  BY <1>3 DEF Unpresented
<1> QED
  BY <1>1, <1>2, <1>3

-----------------------------------------------------------------------------
(* The whole invariant *)

LEMMA GuardNextGInv == GInv /\ [GuardNext]_vars => GInv'
<1>1. ASSUME GInv, GuardNext PROVE GInv'
  <2>1. IInv'
    BY <1>1, ServerStep, NextIInv DEF GInv
  <2>2. GuardTypeOK' /\ Shape'
    BY <1>1, <2>1, TypesStep
  <2>3. KeysAgree' /\ reply'.outcome # "reused"
    BY <1>1, KeysStep
  <2>4. SentFromHere' /\ Opened'
    BY <1>1, <2>1, SentStep, OpenedStep
  <2>5. Apart' /\ Unpresented'
    BY <1>1, ApartStep, UnpresentedStep
  <2> QED
    BY <2>1, <2>2, <2>3, <2>4, <2>5 DEF GInv, KeysAgree
<1>2. ASSUME GInv, UNCHANGED vars PROVE GInv'
  <2>1. [Next]_server
    BY <1>2 DEF vars
  <2>2. IInv'
    BY <1>2, <2>1, NextIInv DEF GInv
  <2>3. UNCHANGED <<store, memory, running, minted, rotation, call, reply, shift, granted,
                    late, refusals, mixed, session, record>>
    BY <1>2 DEF vars, app, server
  <2>4. GuardTypeOK' /\ Shape'
    BY <1>2, <2>2, <2>3 DEF GInv, GuardTypeOK, Shape, IInv
  <2>5. Held' = Held
    BY <2>3 DEF Held, Presentable
  <2>6. KeysMinted' /\ OneTokenPerKey'
    BY <1>2, <2>3, <2>5 DEF GInv, KeysMinted, OneTokenPerKey, Stored
  <2>7. SentFromHere' /\ Opened' /\ Apart' /\ Unpresented' /\ reply'.outcome # "reused"
    BY <1>2, <2>3 DEF GInv, SentFromHere, Opened, Apart, Unpresented
  <2> QED
    BY <2>2, <2>4, <2>6, <2>7 DEF GInv
<1> QED
  BY <1>1, <1>2

LEMMA GuardSpecGInv == GuardSpec => []GInv
BY InitGInv, GuardNextGInv, PTL DEF GuardSpec

-----------------------------------------------------------------------------
(* The credential remains *)

Live(s) == session[s] = "ACTIVE"
Unused(c) == record[c.session][c.key] = NoRecord

\* Credentials in hand, but for those in memory that the store has replaced and
\* the references are about to follow.
Firm(c) ==
    \/ c # NoCredentials
       /\ (c \in {store, call} \/ (c = memory /\ rotation \notin {"saved", "renewed"}))
    \/ shift = "saved" /\ c = granted

\* Of a live session all the app has in hand carries it on,
AllCarryOn ==
    \A c \in Credentials : InHand(c) /\ Live(c.session) => CarriesOn(c)

\* nothing in hand rivals what has not been presented,
NoRival ==
    \A c, d \in Credentials :
        InHand(c) /\ Live(c.session) /\ Unused(c) /\ Firm(d) /\ d.session = c.session => d = c

\* and neither does a request that may be served late.
LateNoRival ==
    \A r \in late : Live(r.session) /\ Stored(r) = NoRecord =>
        /\ r.token = newest[r.session]
        /\ \A q \in late : q.session = r.session /\ Stored(q) = NoRecord => q = r
        /\ \A c \in Credentials : InHand(c) /\ c.session = r.session => Request(c) = r

Remaining == AllCarryOn /\ NoRival /\ LateNoRival

\* An answer in the app's hands is in the server's records.
AnswerKnown ==
    rotation \in {"answered", "renewing"} =>
        /\ reply.outcome # "throttled" =>
               Stored(Request(call)) # NoRecord /\ reply = ReplyIn(record, Request(call))
        /\ reply.outcome = "throttled" => refusals # 0
        /\ rotation = "renewing" => reply.outcome \in {"blocked", "reused", "throttled"}

LateOpened == \A r \in late : session[r.session] # "NONE"

\* Of a session just opened the app has nothing in hand yet but its first token.
Unsaved ==
    shift = "granted" =>
        /\ granted.token = 1 /\ newest[granted.session] = 1
        /\ store # NoCredentials => store.session # granted.session
        /\ \A r \in late : r.session # granted.session

KInv == GInv /\ AnswerKnown /\ LateOpened /\ Unsaved /\ (Unspoilt => Remaining)

LEMMA InHandTyped ==
    ASSUME GuardTypeOK, Shape, NEW c, InHand(c)
    PROVE  c \in Credentials /\ c.session \in Sessions /\ c.token \in Tokens /\ c.key \in Keys
<1>1. c \in Credentials
  BY DEF GuardTypeOK, Shape, InHand
<1> QED
  BY <1>1 DEF Credentials

LEMMA InHandHeld == ASSUME NEW c, InHand(c) PROVE Request(c) \in Held
BY HeldIsInHand

\* What a refresh leaves of a session that is still live.
LEMMA RefreshOutcome ==
    ASSUME TypeOK, NEW r \in Requests, Refresh(r)
    PROVE  /\ ~Fresh(r) => UNCHANGED server
           /\ \A s \in Sessions : Live(s)' => Live(s)
           /\ \A s \in Sessions :
                  s # r.session => newest'[s] = newest[s] /\ session'[s] = session[s]
           /\ Fresh(r) /\ Live(r.session)' =>
                \/ /\ newest'[r.session] = newest[r.session]
                   /\ record'[r.session][r.key].outcome = "blocked"
                \/ /\ newest'[r.session] = newest[r.session] + 1
                   /\ record'[r.session][r.key].outcome = "rotated"
                   /\ record'[r.session][r.key].issued = newest'[r.session]
<1>0. r.session \in Sessions /\ r.key \in Keys /\ newest[r.session] \in 0..MaxTokens
  BY DEF Requests, TypeOK
<1>1. CASE Replay(r) \/ KeyReused(r)
  BY <1>1 DEF Replay, KeyReused, server, Live
<1>2. CASE Block(r)
  BY <1>0, <1>2 DEF Block, Remember, TypeOK, Live
<1>3. CASE Compromise(r) \/ Expire(r)
  BY <1>0, <1>3 DEF Compromise, Expire, EndFamily, TypeOK, Live
<1>4. CASE Rotate(r)
  BY <1>0, <1>4 DEF Rotate, Remember, TypeOK, Live
<1> QED
  BY <1>1, <1>2, <1>3, <1>4 DEF Refresh

\* A request the app has sent that the server does not know yet.
Awaited(r) == r \in late \/ (rotation = "sent" /\ r = Request(call))

\* It carries the last token, and is all that is in hand of its session.
LEMMA AwaitedAlone ==
    ASSUME KInv, Remaining, NEW r, Awaited(r), Fresh(r), Live(r.session)
    PROVE  /\ r.token = newest[r.session]
           /\ \A q \in late : q.session = r.session /\ Stored(q) = NoRecord => q = r
           /\ \A c \in Credentials : InHand(c) /\ c.session = r.session => Request(c) = r
<1>1. CASE r \in late
  BY <1>1 DEF Remaining, LateNoRival, Fresh
<1>2. CASE rotation = "sent" /\ r = Request(call)
  <2>1. /\ call \in Credentials /\ InHand(call) /\ call.session = r.session /\ Unused(call)
        /\ call.token = r.token
    BY <1>2, CredentialsReal DEF KInv, GInv, Shape, InHand, Request, Fresh, Stored, Unused
  <2>2. r.token = newest[r.session]
    BY <2>1 DEF Remaining, AllCarryOn, CarriesOn, Unused, NoRecord
  <2>3. \A q \in late : q.session = r.session /\ Stored(q) = NoRecord => q = r
    BY <1>2, <2>1 DEF Remaining, LateNoRival
  <2>4. \A c \in Credentials : InHand(c) => Firm(c)
    BY <1>2 DEF InHand, Firm
  <2>5. \A c \in Credentials : InHand(c) /\ c.session = r.session => c = call
    BY <2>1, <2>4 DEF Remaining, NoRival
  <2> QED
    BY <1>2, <2>2, <2>3, <2>5
<1> QED
  BY <1>1, <1>2 DEF Awaited

\* The app's requests are of tokens not spent, so none ends its family.
LEMMA NotCompromised ==
    ASSUME KInv, Remaining, NEW r \in Requests, Awaited(r), r.sameDevice, Refresh(r),
           Live(r.session)
    PROVE  session'[r.session] # "COMPROMISED"
<1>0. r.session \in Sessions /\ IInv /\ TypeOK
  BY DEF Requests, KInv, GInv, IInv
<1>1. CASE Compromise(r)
  <2>1. r.token = newest[r.session]
    BY <1>1, AwaitedAlone DEF Compromise
  <2>2. r.token \in {n \in Tokens : token[r.session][n] = "ACTIVE"}
    BY <1>0, <2>1 DEF IInv, OneCurrentToken, OnlyNewest, Live, Requests, Numbered
  <2> QED
    BY <1>1, <2>2 DEF Compromise, Replayed, Spent
<1>2. CASE Expire(r)
  BY <1>0, <1>2 DEF Expire, EndFamily, TypeOK
<1>3. CASE Rotate(r) \/ Block(r) \/ Replay(r) \/ KeyReused(r)
  BY <1>3 DEF Rotate, Block, Replay, KeyReused, server, Live
<1> QED
  BY <1>1, <1>2, <1>3 DEF Refresh

\* A request reaches the server: what is in hand of its session was that request, so it
\* holds the answer now; everything else is as it was.
LEMMA ServedRemains ==
    ASSUME KInv, Remaining, NEW r \in Requests, Awaited(r), r \in Held, Refresh(r),
           late' = late, \A c : InHand(c)' <=> InHand(c), \A c : Firm(c)' <=> Firm(c)
    PROVE  Remaining'
<1>0. /\ r.session \in Sessions /\ r.key \in Keys /\ TypeOK /\ GuardTypeOK /\ Shape
      /\ newest[r.session] \in Nat
  BY DEF Requests, KInv, GInv, IInv, TypeOK
<1>1. CASE ~Fresh(r)
  <2>1. UNCHANGED <<session, newest, record>>
    BY <1>0, <1>1, RefreshOutcome DEF server
  <2> QED
    BY <2>1 DEF Remaining, AllCarryOn, NoRival, LateNoRival, CarriesOn, Live, Unused, Stored
<1>2. CASE Fresh(r)
  <2>1. \A s \in Sessions : \A k \in Keys :
            s # r.session \/ k # r.key => record'[s][k] = record[s][k]
    BY <1>0, RefreshRecords
  <2>2. /\ record[r.session][r.key] = NoRecord
        /\ record'[r.session][r.key] # NoRecord
        /\ record'[r.session][r.key].token = r.token
    BY <1>0, <1>2, RefreshRecords DEF Fresh, Stored, NoRecord
  <2>3. \A s \in Sessions :
            Live(s)' => Live(s) /\ (s # r.session => newest'[s] = newest[s])
    BY <1>0, RefreshOutcome
  <2>4. Live(r.session)' =>
            \/ /\ newest'[r.session] = newest[r.session]
               /\ record'[r.session][r.key].outcome = "blocked"
            \/ /\ newest'[r.session] = newest[r.session] + 1
               /\ record'[r.session][r.key].outcome = "rotated"
               /\ record'[r.session][r.key].issued = newest'[r.session]
    BY <1>0, <1>2, RefreshOutcome
  <2>5. Live(r.session)' =>
            /\ r.token = newest[r.session]
            /\ \A q \in late : q.session = r.session /\ Stored(q) = NoRecord => q = r
            /\ \A c \in Credentials : InHand(c) /\ c.session = r.session => Request(c) = r
    BY <1>0, <1>2, <2>3, AwaitedAlone
  <2>6. AllCarryOn'
    <3> SUFFICES ASSUME NEW c \in Credentials, InHand(c), Live(c.session)'
                 PROVE  CarriesOn(c)'
      BY DEF AllCarryOn
    <3>1. c.session \in Sessions /\ c.key \in Keys /\ Live(c.session) /\ CarriesOn(c)
      BY <2>3 DEF Credentials, Remaining, AllCarryOn
    <3>2. CASE c.session # r.session
      BY <2>1, <2>3, <3>1, <3>2 DEF CarriesOn
    <3>3. CASE c.session = r.session
      <4>1. c.token = r.token /\ c.key = r.key
        BY <2>5, <3>3 DEF Request
      <4> QED
        BY <2>2, <2>4, <2>5, <3>3, <4>1 DEF CarriesOn
    <3> QED
      BY <3>2, <3>3
  <2>7. NoRival'
    <3> SUFFICES ASSUME NEW c \in Credentials, NEW d \in Credentials, InHand(c),
                        Live(c.session)', Unused(c)', Firm(d), d.session = c.session
                 PROVE  d = c
      BY DEF NoRival
    <3>1. c.session \in Sessions /\ c.key \in Keys /\ Live(c.session) /\ Unused(c)
      BY <2>1, <2>2, <2>3 DEF Credentials, Unused
    <3> QED
      BY <3>1 DEF Remaining, NoRival
  <2>8. LateNoRival'
    <3> SUFFICES ASSUME NEW p \in late, Live(p.session)', Stored(p)' = NoRecord
                 PROVE  /\ p.token = newest'[p.session]
                        /\ \A q \in late : q.session = p.session /\ Stored(q)' = NoRecord => q = p
                        /\ \A c \in Credentials :
                               InHand(c) /\ c.session = p.session => Request(c) = p
      BY DEF LateNoRival
    <3>0. \A q \in late : q.session \in Sessions /\ q.key \in Keys
      BY <1>0 DEF GuardTypeOK, Requests
    <3>1. \A q \in late : Stored(q)' = NoRecord => Stored(q) = NoRecord
      BY <2>1, <2>2, <3>0 DEF Stored
    <3>2. Live(p.session) /\ Stored(p) = NoRecord
      BY <2>3, <3>0, <3>1
    <3>3. p.session # r.session
      <4> SUFFICES ASSUME p.session = r.session PROVE FALSE
        OBVIOUS
      <4>1. p = r
        BY <2>5, <3>2
      <4> QED
        BY <2>2, <4>1 DEF Stored
    <3>4. newest'[p.session] = newest[p.session]
      BY <2>3, <3>0, <3>3
    <3> QED
      BY <3>1, <3>2, <3>4 DEF Remaining, LateNoRival
  <2> QED
    BY <2>6, <2>7, <2>8 DEF Remaining
<1> QED
  BY <1>1, <1>2

\* What a step that serves none of the app's requests leaves as it was.
Undisturbed ==
    /\ record' = record
    /\ \A s \in Sessions : session[s] # "NONE" /\ Live(s)' => Live(s) /\ newest'[s] = newest[s]

\* Nothing new comes into hand; a request may be given up on.
LEMMA FewerRemain ==
    ASSUME KInv, Remaining, Undisturbed,
           late' \subseteq late
               \cup (IF rotation = "sent" THEN {Request(call)} ELSE {}),
           \A c : InHand(c)' => InHand(c), \A c : Firm(c)' => Firm(c)
    PROVE  Remaining'
<1>0. GuardTypeOK /\ Shape /\ Opened
  BY DEF KInv, GInv
<1>1. ASSUME NEW c \in Credentials, InHand(c), Live(c.session)'
      PROVE  Live(c.session) /\ newest'[c.session] = newest[c.session]
  <2>1. c.session \in Sessions
    BY DEF Credentials
  <2>2. session[c.session] # "NONE"
    BY <1>0, <1>1 DEF InHand, Opened, Shape
  <2> QED
    BY <1>1, <2>1, <2>2 DEF Undisturbed
<1>2. ASSUME NEW r, Awaited(r), Live(r.session)'
      PROVE  Live(r.session) /\ newest'[r.session] = newest[r.session]
  <2>1. CASE r \in late
    BY <1>0, <1>2, <2>1 DEF KInv, LateOpened, Undisturbed, GuardTypeOK, Requests
  <2>2. CASE rotation = "sent" /\ r = Request(call)
    BY <1>0, <1>1, <1>2, <2>2, CredentialsReal DEF Shape, InHand, Request
  <2> QED
    BY <1>2, <2>1, <2>2 DEF Awaited
<1>3. AllCarryOn'
  BY <1>1 DEF AllCarryOn, Remaining, CarriesOn, Undisturbed
<1>4. NoRival'
  BY <1>1 DEF NoRival, Remaining, Unused, Undisturbed
<1>5. LateNoRival'
  <2> SUFFICES ASSUME NEW r \in late', Live(r.session)', Stored(r)' = NoRecord
               PROVE  /\ r.token = newest'[r.session]
                      /\ \A q \in late' : q.session = r.session /\ Stored(q)' = NoRecord => q = r
                      /\ \A c \in Credentials :
                             InHand(c)' /\ c.session = r.session => Request(c) = r
    BY DEF LateNoRival
  <2>1. \A q \in late' : Awaited(q) /\ (Stored(q)' = NoRecord => Fresh(q))
    BY DEF Awaited, Stored, Fresh, Undisturbed
  <2>2. Live(r.session) /\ newest'[r.session] = newest[r.session] /\ Fresh(r) /\ Awaited(r)
    BY <1>2, <2>1
  <2>3. /\ r.token = newest[r.session]
        /\ \A q \in late : q.session = r.session /\ Stored(q) = NoRecord => q = r
        /\ \A c \in Credentials : InHand(c) /\ c.session = r.session => Request(c) = r
    BY <2>2, AwaitedAlone
  <2>4. ASSUME NEW q \in late', q.session = r.session, Stored(q)' = NoRecord PROVE q = r
    <3>1. Awaited(q) /\ Fresh(q)
      BY <2>1, <2>4
    <3>2. CASE q \in late
      BY <2>3, <2>4, <3>1, <3>2 DEF Fresh
    <3>3. CASE rotation = "sent" /\ q = Request(call)
      <4>1. call \in Credentials /\ InHand(call) /\ call.session = q.session
        BY <1>0, <3>3, CredentialsReal DEF Shape, InHand, Request
      <4> QED
        BY <2>3, <2>4, <3>3, <4>1
    <3> QED
      BY <3>1, <3>2, <3>3 DEF Awaited
  <2> QED
    BY <2>2, <2>3, <2>4
<1> QED
  BY <1>3, <1>4, <1>5 DEF Remaining

\* Credentials under a new key come into hand, in the place of all else of their session.
LEMMA NewRemains ==
    ASSUME KInv, Remaining, NEW s \in Sessions, NEW n \in Tokens, Mint,
           UNCHANGED <<server, late>>,
           Live(s) => n = newest[s],
           \A c : InHand(c)' => InHand(c) \/ c = WithNewKey(s, n),
           \A c : Firm(c)' => (Firm(c) /\ c.session # s) \/ c = WithNewKey(s, n),
           Live(s) => \A c : InHand(c)' /\ c.session = s /\ Unused(c) => c = WithNewKey(s, n),
           Live(s) => \A q \in late : q.session = s => Stored(q) # NoRecord
    PROVE  Remaining'
<1> DEFINE x == WithNewKey(s, n)
<1>0. GuardTypeOK /\ Shape /\ KeysMinted
  BY DEF KInv, GInv
<1>1. x \in Credentials /\ x.session = s /\ x.token = n /\ x.key \in Keys /\ x.key = minted + 1
  BY <1>0, NewKeyTyped DEF WithNewKey, Credentials
<1>2. Unused(x)
  BY <1>0, <1>1, BoundsPositive DEF KeysMinted, Unused, GuardTypeOK
<1> HIDE DEF x
<1>3. UNCHANGED <<session, newest, record>>
  BY DEF server
<1>4. \A c : /\ InHand(c)' => InHand(c) \/ c = x
             /\ Firm(c)' => (Firm(c) /\ c.session # s) \/ c = x
             /\ Live(s) /\ InHand(c)' /\ c.session = s /\ Unused(c) => c = x
  BY DEF x
<1>5. AllCarryOn'
  <2> SUFFICES ASSUME NEW c \in Credentials, InHand(c)', Live(c.session)
               PROVE  CarriesOn(c)
    BY <1>3 DEF AllCarryOn, Live, CarriesOn
  <2>1. CASE c = x
    BY <1>1, <1>2, <2>1 DEF CarriesOn, Unused
  <2>2. CASE c # x
    BY <1>4, <2>2 DEF Remaining, AllCarryOn
  <2> QED
    BY <2>1, <2>2
<1>6. NoRival'
  <2> SUFFICES ASSUME NEW c \in Credentials, NEW d \in Credentials, InHand(c)',
                      Live(c.session), Unused(c), Firm(d)', d.session = c.session
               PROVE  d = c
    BY <1>3 DEF NoRival, Live, Unused
  <2>1. CASE c.session = s
    BY <1>1, <1>4, <2>1
  <2>2. CASE c.session # s
    BY <1>1, <1>4, <2>2 DEF Remaining, NoRival
  <2> QED
    BY <2>1, <2>2
<1>7. LateNoRival'
  <2> SUFFICES ASSUME NEW r \in late, Live(r.session), Stored(r) = NoRecord
               PROVE  /\ r.token = newest[r.session]
                      /\ \A q \in late : q.session = r.session /\ Stored(q) = NoRecord => q = r
                      /\ \A c \in Credentials :
                             InHand(c)' /\ c.session = r.session => Request(c) = r
    BY <1>3 DEF LateNoRival, Live, Stored
  <2>1. r.session # s
    OBVIOUS
  <2> QED
    BY <1>1, <1>4, <2>1 DEF Remaining, LateNoRival
<1> QED
  BY <1>5, <1>6, <1>7 DEF Remaining

LEMMA SpoiltForGood == ASSUME GuardTypeOK, GuardNext, Unspoilt' PROVE Unspoilt
<1>1. CASE Throttled
  <2>1. refusals \in Nat /\ refusals' = refusals + 1 /\ mixed' = mixed
    BY <1>1, RefusalsBounded DEF Throttled, GuardTypeOK
  <2> QED
    BY <2>1 DEF Unspoilt
<1>2. CASE AdoptKey
  BY <1>2 DEF AdoptKey, Unspoilt
<1>3. CASE UNCHANGED past
  BY <1>3 DEF Unspoilt
<1> QED
  BY <1>1, <1>2, <1>3
     DEF GuardNext, StartRotation, Answered, GiveUp, ServedLate, Dropped, SaveRotated,
         AdoptRotated, Expired, ClearExpired, RenewalStarts, RenewKey,
         SignInAnswered, SaveShift, AdoptShift, SignOut, ClearShift, Killed, Boot

LEMMA RemainingStep ==
    ASSUME KInv, GuardNext, Unspoilt' PROVE Remaining'
<1> USE DEF RotationEnds, ShiftStands
<1>0. /\ GuardTypeOK /\ Shape /\ Opened /\ Apart /\ Unspoilt /\ Remaining /\ TypeOK
  BY SpoiltForGood DEF KInv, GInv, GuardTypeOK
<1> DEFINE Fewer ==
             /\ late' \subseteq late \cup (IF rotation = "sent" THEN {Request(call)} ELSE {})
             /\ \A c : InHand(c)' => InHand(c)
             /\ \A c : Firm(c)' => Firm(c)
<1>1. ASSUME Fewer, UNCHANGED server PROVE Remaining'
  BY <1>0, <1>1, FewerRemain DEF Undisturbed, Live, server
<1>2. CASE StartRotation
  BY <1>1, <1>2 DEF StartRotation, InHand, Firm
<1>3. CASE Answered
  <2>1. /\ Request(call) \in Requests /\ Awaited(Request(call)) /\ Request(call) \in Held
        /\ Refresh(Request(call)) /\ late' = late
    BY <1>0, <1>3, RequestTyped, CredentialsReal, InHandHeld DEF Answered, Shape, Awaited, InHand
  <2>2. \A c : (InHand(c)' <=> InHand(c)) /\ (Firm(c)' <=> Firm(c))
    BY <1>3 DEF Answered, InHand, Firm
  <2> QED
    BY <1>0, <2>1, <2>2, ServedRemains
<1>4. CASE Throttled
  BY <1>0, <1>4, RefusalsBounded DEF Throttled, Unspoilt, GuardTypeOK
<1>5. CASE GiveUp
  BY <1>1, <1>5 DEF GiveUp, InHand, Firm
<1>6. ASSUME NEW r \in late, ServedLate(r) PROVE Remaining'
  <2>1. r \in Requests /\ Awaited(r) /\ r \in Held /\ Refresh(r) /\ late' = late
    BY <1>0, <1>6, HeldIsInHand DEF ServedLate, Awaited, GuardTypeOK
  <2>2. \A c : (InHand(c)' <=> InHand(c)) /\ (Firm(c)' <=> Firm(c))
    BY <1>6 DEF ServedLate, app, InHand, Firm
  <2> QED
    BY <1>0, <2>1, <2>2, ServedRemains
<1>7. ASSUME NEW r \in late, Dropped(r) PROVE Remaining'
  BY <1>1, <1>7 DEF Dropped, app, InHand, Firm
<1>8. CASE SaveRotated
  <2>1. /\ call \in Credentials /\ InHand(call) /\ Firm(call) /\ reply.issued \in Tokens
        /\ call.session \in Sessions
    BY <1>0, <1>8, CredentialsReal DEF SaveRotated, Shape, InHand, Firm, Credentials
  <2>2. /\ record[call.session][call.key] # NoRecord
        /\ record[call.session][call.key].outcome = "rotated"
        /\ reply.issued = record[call.session][call.key].issued
    <3>1. /\ Stored(Request(call)) # NoRecord /\ reply = ReplyIn(record, Request(call))
          /\ reply.outcome = "rotated"
      BY <1>8 DEF SaveRotated, KInv, AnswerKnown
    <3> QED
      BY <3>1 DEF Stored, Request, ReplyIn, Reply
  <2>3. Live(call.session) => reply.issued = newest[call.session]
    BY <1>0, <2>1, <2>2 DEF Remaining, AllCarryOn, CarriesOn
  <2> DEFINE x == WithNewKey(call.session, reply.issued)
  <2>4. \A c : (InHand(c)' => InHand(c) \/ c = x) /\ (InHand(c)' => c \in {memory, granted, x})
    BY <1>8 DEF SaveRotated, InHand
  <2>5. \A c : Firm(c)' => (Firm(c) /\ c.session # call.session) \/ c = x
    BY <1>0, <1>8 DEF SaveRotated, Apart, Firm
  <2>6. Live(call.session) =>
            \A c : InHand(c)' /\ c.session = call.session /\ Unused(c) => c = x
    <3> SUFFICES ASSUME Live(call.session), NEW c, InHand(c)', c.session = call.session,
                        Unused(c), c # x
                 PROVE  FALSE
      OBVIOUS
    <3>1. InHand(c) /\ c \in Credentials
      BY <1>0, <2>4, InHandTyped
    <3>2. call = c
      BY <1>0, <2>1, <3>1 DEF Remaining, NoRival
    <3> QED
      BY <2>2, <3>2 DEF Unused
  <2>7. Live(call.session) => \A q \in late : q.session = call.session => Stored(q) # NoRecord
    BY <1>0, <2>1, <2>2 DEF Remaining, LateNoRival, Stored, Request
  <2>8. Mint /\ UNCHANGED <<server, late>>
    BY <1>8 DEF SaveRotated
  <2> HIDE DEF x
  <2>9. /\ \A c : InHand(c)' => InHand(c) \/ c = x
        /\ x = WithNewKey(call.session, reply.issued)
    BY <2>4 DEF x
  <2> QED
    BY <1>0, <2>1, <2>3, <2>5, <2>6, <2>7, <2>8, <2>9, NewRemains
<1>9. CASE AdoptRotated
  BY <1>1, <1>9 DEF AdoptRotated, InHand, Firm
<1>10. CASE Expired \/ ClearExpired
  BY <1>1, <1>10 DEF Expired, ClearExpired, InHand, Firm
<1>11. CASE RenewalStarts
  BY <1>1, <1>11 DEF RenewalStarts, InHand, Firm
<1>12. CASE RenewKey
  <2>1. /\ call \in Credentials /\ InHand(call) /\ Firm(call)
        /\ call.session \in Sessions /\ call.token \in Tokens
    BY <1>0, <1>12, CredentialsReal DEF RenewKey, Shape, InHand, Firm, Credentials
  <2>2. /\ record[call.session][call.key] # NoRecord
        /\ record[call.session][call.key].outcome = "blocked"
    <3>1. reply.outcome \notin {"throttled", "reused"}
      BY <1>0, <1>12 DEF RenewKey, KInv, AnswerKnown, GInv, Unspoilt
    <3>2. /\ Stored(Request(call)) # NoRecord /\ reply = ReplyIn(record, Request(call))
          /\ reply.outcome = "blocked"
      BY <1>12, <3>1 DEF RenewKey, KInv, AnswerKnown
    <3> QED
      BY <3>2 DEF Stored, Request, ReplyIn, Reply
  <2>3. Live(call.session) => call.token = newest[call.session]
    BY <1>0, <2>1, <2>2 DEF Remaining, AllCarryOn, CarriesOn
  <2> DEFINE x == WithNewKey(call.session, call.token)
  <2>4. \A c : InHand(c)' => InHand(c) \/ c = x
    BY <1>12 DEF RenewKey, InHand
  <2>5. \A c : Firm(c)' => (Firm(c) /\ c.session # call.session) \/ c = x
    BY <1>0, <1>12 DEF RenewKey, Apart, Firm
  <2>6. Live(call.session) =>
            \A c : InHand(c)' /\ c.session = call.session /\ Unused(c) => c = x
    <3> SUFFICES ASSUME Live(call.session), NEW c, InHand(c)', c.session = call.session,
                        Unused(c), c # x
                 PROVE  FALSE
      OBVIOUS
    <3>1. InHand(c) /\ c \in Credentials
      BY <1>0, <2>4, InHandTyped
    <3>2. call = c
      BY <1>0, <2>1, <3>1 DEF Remaining, NoRival
    <3> QED
      BY <2>2, <3>2 DEF Unused
  <2>7. Live(call.session) => \A q \in late : q.session = call.session => Stored(q) # NoRecord
    BY <1>0, <2>1, <2>2 DEF Remaining, LateNoRival, Stored, Request
  <2>8. Mint /\ UNCHANGED <<server, late>>
    BY <1>12 DEF RenewKey
  <2> HIDE DEF x
  <2>9. x = WithNewKey(call.session, call.token)
    BY DEF x
  <2> QED
    BY <1>0, <2>1, <2>3, <2>4, <2>5, <2>6, <2>7, <2>8, <2>9, NewRemains
<1>13. CASE AdoptKey
  <2>1. memory # NoCredentials => memory' = call
    BY <1>0, <1>13 DEF AdoptKey, Unspoilt, Apart, GuardTypeOK, Shape, Credentials
  <2>2. call # NoCredentials
    BY <1>0, <1>13, CredentialsReal DEF AdoptKey, Shape
  <2> QED
    BY <1>1, <1>13, <2>1, <2>2 DEF AdoptKey, InHand, Firm
<1>14. ASSUME NEW s \in Sessions, SignInAnswered(s) PROVE Remaining'
  <2>1. Fewer
    BY <1>14 DEF SignInAnswered, InHand, Firm
  <2>2. Undisturbed
    BY <1>0, <1>14 DEF SignInAnswered, SignIn, Undisturbed, Live, TypeOK
  <2> QED
    BY <1>0, <2>1, <2>2, FewerRemain
<1>15. CASE SaveShift
  <2>1. granted.session \in Sessions /\ granted.token \in Tokens
    BY <1>0, <1>15 DEF SaveShift, Shape
  <2>2. granted.token = newest[granted.session]
    BY <1>15 DEF SaveShift, KInv, Unsaved
  <2> DEFINE x == WithNewKey(granted.session, granted.token)
  <2>3. \A c : (InHand(c)' => InHand(c) \/ c = x) /\ (InHand(c)' => c \in {memory, call, x})
    BY <1>15 DEF SaveShift, InHand
  <2>4. \A c : InHand(c)' /\ c # x => c.session # granted.session
    BY <1>0, <1>15 DEF SaveShift, InHand, Shape, Apart
  <2>5. \A c : Firm(c)' => (Firm(c) /\ c.session # granted.session) \/ c = x
    BY <1>0, <1>15 DEF SaveShift, Shape, Apart, Firm
  <2>6. \A q \in late : q.session # granted.session
    BY <1>15 DEF SaveShift, KInv, Unsaved
  <2>7. Mint /\ UNCHANGED <<server, late>>
    BY <1>15 DEF SaveShift
  <2> HIDE DEF x
  <2>8. /\ \A c : InHand(c)' => InHand(c) \/ c = x
        /\ x = WithNewKey(granted.session, granted.token)
    BY <2>3 DEF x
  <2> QED
    BY <1>0, <2>1, <2>2, <2>4, <2>5, <2>6, <2>7, <2>8, NewRemains
<1>16. CASE AdoptShift
  BY <1>1, <1>16 DEF AdoptShift, InHand, Firm
<1>17. CASE SignOut
  <2>1. Fewer
    BY <1>17 DEF SignOut, InHand, Firm
  <2>2. Undisturbed
    BY <1>0, <1>17 DEF SignOut, Revoke, server, Undisturbed, Live, TypeOK
  <2> QED
    BY <1>0, <2>1, <2>2, FewerRemain
<1>18. CASE ClearShift
  BY <1>1, <1>18 DEF ClearShift, InHand, Firm
<1>19. CASE Killed
  BY <1>1, <1>19 DEF Killed, InHand, Firm
<1>20. CASE Boot
  BY <1>0, <1>1, <1>20 DEF Boot, InHand, Firm
<1>21. CASE /\ (\E s \in Sessions : Revoke(s) \/ Lapse(s)) \/ Bar \/ WindowPasses
            /\ UNCHANGED <<app, late, past>>
  <2>1. Fewer
    BY <1>21 DEF app, InHand, Firm
  <2>2. Undisturbed
    BY <1>0, <1>21 DEF Revoke, Lapse, Bar, WindowPasses, Undisturbed, Live, TypeOK
  <2> QED
    BY <1>0, <2>1, <2>2, FewerRemain
<1> QED
  BY <1>2, <1>3, <1>4, <1>5, <1>6, <1>7, <1>8, <1>9, <1>10, <1>11, <1>12, <1>13, <1>14,
     <1>15, <1>16, <1>17, <1>18, <1>19, <1>20, <1>21 DEF GuardNext

LEMMA AnswerKnownStep ==
    ASSUME KInv, GuardNext, TypeOK' PROVE AnswerKnown'
<1> USE DEF RotationEnds, ShiftStands
<1>0. /\ GuardTypeOK /\ Shape /\ AnswerKnown /\ TypeOK /\ NoReply.outcome = "none"
  BY DEF KInv, GInv, GuardTypeOK, NoReply
<1>1. CASE Answered
  <2> DEFINE r == Request(call)
  <2>1. r \in Requests /\ Refresh(r) /\ reply' = ReplyIn(record', r) /\ call' = call
    BY <1>0, <1>1, RequestTyped DEF Answered, Shape
  <2>2. record'[r.session][r.key] # NoRecord
    BY <1>0, <2>1, RefreshRecords DEF Fresh, Stored, NoRecord
  <2>3. rotation' = "answered"
    BY <1>1 DEF Answered
  <2>4. reply'.outcome # "throttled"
    <3>1. r.session \in Sessions /\ r.key \in Keys
      BY <2>1 DEF Requests
    <3>2. record'[r.session][r.key] \in Records \cup {NoRecord}
      BY <3>1 DEF TypeOK
    <3>3. record'[r.session][r.key].outcome # "throttled"
      BY <3>2 DEF Records, NoRecord
    <3> QED
      BY <2>1, <3>3 DEF ReplyIn, Reply
  <2> QED
    BY <2>1, <2>2, <2>3, <2>4 DEF AnswerKnown, Stored
<1>2. CASE Throttled
  <2>1. refusals' # 0
    BY <1>0, <1>2, RefusalsBounded DEF Throttled, GuardTypeOK
  <2> QED
    BY <1>2, <2>1 DEF Throttled, AnswerKnown, Reply
<1>3. ASSUME NEW r \in late, ServedLate(r) PROVE AnswerKnown'
  <2>1. r \in Requests /\ Refresh(r) /\ UNCHANGED <<rotation, reply, call, refusals>>
    BY <1>0, <1>3 DEF ServedLate, app, GuardTypeOK
  <2>2. ASSUME rotation # "idle", Stored(Request(call)) # NoRecord
        PROVE  record'[call.session][call.key] = record[call.session][call.key]
    <3>1. call.session \in Sessions /\ call.key \in Keys
      BY <1>0, <2>2 DEF Shape, Credentials
    <3>2. r.session \in Sessions /\ r.key \in Keys
      BY <2>1 DEF Requests
    <3>3. CASE Fresh(r)
      <4>1. r.session # call.session \/ r.key # call.key
        BY <2>2, <3>3 DEF Fresh, Stored, Request
      <4> QED
        BY <1>0, <2>1, <3>1, <4>1, RefreshRecords
    <3>4. CASE ~Fresh(r)
      BY <1>0, <2>1, <3>4, RefreshRecords
    <3> QED
      BY <3>3, <3>4
  <2> QED
    BY <1>0, <2>1, <2>2 DEF AnswerKnown, Stored, Request, ReplyIn
<1>4. CASE RenewalStarts
  BY <1>0, <1>4 DEF RenewalStarts, AnswerKnown, Stored, ReplyIn, server
<1>5. CASE UNCHANGED <<rotation, reply, call, record, refusals>>
  BY <1>0, <1>5 DEF AnswerKnown, Stored, ReplyIn
<1>6. CASE rotation' \notin {"answered", "renewing"}
  BY <1>6 DEF AnswerKnown
<1>7. ASSUME NEW s \in Sessions, SignInAnswered(s) PROVE AnswerKnown'
  BY <1>5, <1>7 DEF SignInAnswered, SignIn
<1>8. CASE SignOut
  BY <1>5, <1>8 DEF SignOut, Revoke, server
<1>9. CASE /\ (\E s \in Sessions : Revoke(s) \/ Lapse(s)) \/ Bar \/ WindowPasses
           /\ UNCHANGED <<app, late, past>>
  BY <1>5, <1>9 DEF Revoke, Lapse, Bar, WindowPasses, app
<1>10. CASE StartRotation \/ GiveUp \/ SaveRotated \/ AdoptRotated \/ Expired \/ ClearExpired
            \/ RenewKey \/ AdoptKey \/ Killed
  BY <1>6, <1>10 DEF StartRotation, GiveUp, SaveRotated, AdoptRotated, Expired, ClearExpired,
                     RenewKey, AdoptKey, Killed
<1>11. CASE SaveShift \/ AdoptShift \/ ClearShift \/ Boot \/ \E r \in late : Dropped(r)
  BY <1>5, <1>11 DEF SaveShift, AdoptShift, ClearShift, Boot, Dropped, server, app
<1> QED
  BY <1>1, <1>2, <1>3, <1>4, <1>7, <1>8, <1>9, <1>10, <1>11 DEF GuardNext

LEMMA LateOpenedStep ==
    ASSUME KInv, GuardNext, IInv' PROVE LateOpened'
<1>0. GuardTypeOK /\ Shape /\ Opened /\ IInv /\ LateOpened
  BY DEF KInv, GInv
<1>1. \A s \in Sessions : session[s] # "NONE" => session'[s] # "NONE"
  BY <1>0, ServerStep, StaysOpened DEF KInv
<1>2. late' \subseteq late \cup (IF rotation = "sent" THEN {Request(call)} ELSE {})
  BY DEF GuardNext, StartRotation, Answered, Throttled, GiveUp, ServedLate, Dropped,
         SaveRotated, AdoptRotated, Expired, ClearExpired, RenewalStarts, RenewKey, AdoptKey,
         SignInAnswered, SaveShift, AdoptShift, SignOut, ClearShift, Killed, Boot, app
<1>3. rotation = "sent" => call.session \in Sessions /\ session[call.session] # "NONE"
  BY <1>0 DEF Shape, Opened, Credentials
<1>4. \A r \in late : r.session \in Sessions /\ session[r.session] # "NONE"
  BY <1>0 DEF GuardTypeOK, Requests, LateOpened
<1> QED
  BY <1>1, <1>2, <1>3, <1>4 DEF LateOpened, Request

LEMMA UnsavedStep ==
    ASSUME KInv, GuardNext PROVE Unsaved'
<1> USE DEF RotationEnds, ShiftStands
<1>0. GuardTypeOK /\ Shape /\ Opened /\ Apart /\ Unsaved /\ LateOpened /\ TypeOK
  BY DEF KInv, GInv, GuardTypeOK
<1>1. ASSUME NEW s \in Sessions, SignInAnswered(s) PROVE Unsaved'
  <2>1. granted'.session = s /\ granted'.token = 1 /\ newest'[s] = 1 /\ session[s] = "NONE"
    BY <1>0, <1>1 DEF SignInAnswered, SignIn, NoCredentials, TypeOK
  <2>2. store' = store /\ late' = late
    BY <1>1 DEF SignInAnswered
  <2> QED
    BY <1>0, <2>1, <2>2 DEF Unsaved, Opened, LateOpened
<1>2. ASSUME NEW r \in Requests, Refresh(r), r.session # granted.session,
             UNCHANGED <<shift, granted, store, late>>
      PROVE  Unsaved'
  <2>1. shift = "granted" => granted.session \in Sessions
    BY <1>0 DEF Shape
  <2>2. shift = "granted" => newest'[granted.session] = newest[granted.session]
    BY <1>0, <1>2, <2>1, RefreshOutcome
  <2> QED
    BY <1>0, <1>2, <2>2 DEF Unsaved
<1>3. CASE Answered
  <2>1. Request(call) \in Requests /\ Request(call).session = call.session
    BY <1>0, <1>3, RequestTyped DEF Answered, Shape, Request
  <2>2. CASE shift = "granted"
    BY <1>0, <1>2, <1>3, <2>1, <2>2 DEF Answered, Apart
  <2>3. CASE shift # "granted"
    BY <1>3, <2>3 DEF Answered, Unsaved
  <2> QED
    BY <2>2, <2>3
<1>4. ASSUME NEW r \in late, ServedLate(r) PROVE Unsaved'
  <2>1. CASE shift = "granted"
    BY <1>0, <1>2, <1>4, <2>1 DEF ServedLate, app, Unsaved, GuardTypeOK
  <2>2. CASE shift # "granted"
    BY <1>4, <2>2 DEF ServedLate, app, Unsaved
  <2> QED
    BY <2>1, <2>2
<1>5. CASE SaveRotated \/ RenewKey
  <2>1. store'.session = call.session /\ UNCHANGED <<newest, shift, granted, late>>
    BY <1>5 DEF SaveRotated, RenewKey, WithNewKey, server
  <2>2. rotation # "idle"
    BY <1>5 DEF SaveRotated, RenewKey
  <2> QED
    BY <1>0, <2>1, <2>2 DEF Unsaved, Apart
<1>6. CASE GiveUp \/ Killed
  <2>1. CASE shift' = "granted"
    <3>1. GiveUp
      BY <1>6, <2>1 DEF Killed
    <3> QED
      BY <1>0, <3>1 DEF GiveUp, Unsaved, Apart, Request, server
  <2>2. CASE shift' # "granted"
    BY <2>2 DEF Unsaved
  <2> QED
    BY <2>1, <2>2
<1>7. CASE StartRotation \/ Throttled \/ AdoptRotated \/ Expired \/ ClearExpired
           \/ RenewalStarts \/ AdoptKey \/ Boot \/ \E r \in late : Dropped(r)
  BY <1>0, <1>7 DEF StartRotation, Throttled, AdoptRotated, Expired, ClearExpired, RenewalStarts,
                    AdoptKey, Boot, Dropped, app, server, Unsaved, Shape
<1>8. CASE SaveShift \/ AdoptShift \/ SignOut \/ ClearShift
  BY <1>8 DEF SaveShift, AdoptShift, SignOut, ClearShift, Unsaved
<1>9. CASE /\ (\E s \in Sessions : Revoke(s) \/ Lapse(s)) \/ Bar \/ WindowPasses
           /\ UNCHANGED <<app, late, past>>
  BY <1>0, <1>9 DEF Revoke, Lapse, Bar, WindowPasses, app, Unsaved
<1> QED
  BY <1>1, <1>3, <1>4, <1>5, <1>6, <1>7, <1>8, <1>9 DEF GuardNext

LEMMA InitKInv == GuardInit => KInv
<1> SUFFICES ASSUME GuardInit PROVE KInv
  OBVIOUS
<1>1. AnswerKnown /\ LateOpened /\ Unsaved
  BY DEF GuardInit, AnswerKnown, LateOpened, Unsaved
<1>2. \A c : ~InHand(c)
  BY DEF GuardInit, InHand
<1>3. Remaining
  BY <1>2 DEF GuardInit, Remaining, AllCarryOn, NoRival, LateNoRival
<1> QED
  BY <1>1, <1>3, InitGInv DEF KInv

LEMMA NextKInv == KInv /\ [GuardNext]_vars => KInv'
<1>1. ASSUME KInv, GuardNext PROVE KInv'
  <2>1. GInv'
    BY <1>1, GuardNextGInv DEF KInv
  <2>2. IInv' /\ TypeOK'
    BY <2>1 DEF GInv, IInv
  <2>3. AnswerKnown' /\ LateOpened' /\ Unsaved'
    BY <1>1, <2>2, AnswerKnownStep, LateOpenedStep, UnsavedStep
  <2>4. Unspoilt' => Remaining'
    BY <1>1, RemainingStep
  <2> QED
    BY <2>1, <2>3, <2>4 DEF KInv
<1>2. ASSUME KInv, UNCHANGED vars PROVE KInv'
  <2>1. GInv'
    BY <1>2, GuardNextGInv DEF KInv
  <2>2. UNCHANGED <<store, memory, running, minted, rotation, call, reply, shift, granted,
                    late, refusals, mixed, session, newest, record>>
    BY <1>2 DEF vars, app, server
  <2>3. AnswerKnown' /\ LateOpened' /\ Unsaved'
    BY <1>2, <2>2 DEF KInv, AnswerKnown, LateOpened, Unsaved, Stored, ReplyIn
  <2>4. \A c : (InHand(c)' <=> InHand(c)) /\ (Firm(c)' <=> Firm(c))
    BY <2>2 DEF InHand, Firm
  <2>5. Remaining => Remaining'
    BY <2>2, <2>4 DEF Remaining, AllCarryOn, NoRival, LateNoRival, Live, Unused, CarriesOn, Stored
  <2>6. Unspoilt' => Unspoilt
    BY <2>2 DEF Unspoilt
  <2> QED
    BY <1>2, <2>1, <2>3, <2>5, <2>6 DEF KInv
<1> QED
  BY <1>1, <1>2

LEMMA GuardSpecKInv == GuardSpec => []KInv
BY InitKInv, NextKInv, PTL DEF GuardSpec

\* Of a live session no step of the app ends the family.
LEMMA NoReplayStep ==
    ASSUME KInv, Unspoilt, GuardNext, NEW s \in Sessions, Live(s)
    PROVE  session'[s] # "COMPROMISED"
<1>0. GuardTypeOK /\ Shape /\ TypeOK /\ Remaining
  BY DEF KInv, GInv, GuardTypeOK
<1>1. ASSUME NEW r \in Requests, Awaited(r), r.sameDevice, Refresh(r)
      PROVE  session'[s] # "COMPROMISED"
  <2>1. CASE r.session = s
    BY <1>0, <1>1, <2>1, NotCompromised
  <2>2. CASE r.session # s
    <3>1. session'[s] = session[s]
      BY <1>0, <1>1, <2>2, RefreshOutcome
    <3> QED
      BY <3>1 DEF Live
  <2> QED
    BY <2>1, <2>2
<1>2. CASE Answered
  <2>1. Request(call) \in Requests /\ Request(call).sameDevice /\ Awaited(Request(call))
    BY <1>0, <1>2, RequestTyped DEF Answered, Shape, Request, Awaited
  <2>2. Refresh(Request(call))
    BY <1>2 DEF Answered
  <2> QED
    BY <1>1, <2>1, <2>2
<1>3. ASSUME NEW r \in late, ServedLate(r) PROVE session'[s] # "COMPROMISED"
  <2>1. r \in Requests /\ r.sameDevice /\ Awaited(r) /\ Refresh(r)
    BY <1>0, <1>3 DEF ServedLate, Awaited, GuardTypeOK, KInv, GInv, SentFromHere
  <2> QED
    BY <1>1, <2>1
<1>4. ASSUME NEW t \in Sessions, SignInAnswered(t) PROVE session'[s] # "COMPROMISED"
  BY <1>0, <1>4 DEF SignInAnswered, SignIn, Live, TypeOK
<1>5. CASE SignOut
  BY <1>0, <1>5 DEF SignOut, Revoke, EndFamily, server, Live, TypeOK
<1>6. CASE (\E t \in Sessions : Revoke(t) \/ Lapse(t)) \/ Bar \/ WindowPasses
  BY <1>0, <1>6 DEF Revoke, Lapse, Bar, WindowPasses, EndFamily, Live, TypeOK
<1>7. CASE UNCHANGED server
  BY <1>7 DEF server, Live
<1> QED
  BY <1>2, <1>3, <1>4, <1>5, <1>6, <1>7
  DEF GuardNext, StartRotation, Throttled, GiveUp, Dropped, SaveRotated, AdoptRotated, Expired,
      ClearExpired, RenewalStarts, RenewKey, AdoptKey, SaveShift, AdoptShift, ClearShift,
      Killed, Boot

-----------------------------------------------------------------------------
(* Results *)

\* The guard app implements the client SessionRotation leaves open: each of its
\* steps, a kill and a late delivery included, is a step of the server or none.
THEOREM GuardSpecRunsOnTheServer == GuardSpec => Spec
<1>1. GuardInit => Init
  BY DEF GuardInit
<1>2. GInv /\ [GuardNext]_vars => [Next]_server
  <2>1. ASSUME GInv, GuardNext PROVE [Next]_server
    BY <2>1, ServerStep
  <2>2. UNCHANGED vars => UNCHANGED server
    BY DEF vars
  <2> QED
    BY <2>1, <2>2
<1> QED
  BY <1>1, <1>2, GuardSpecGInv, PTL DEF GuardSpec, Spec

\* So the server's guarantees hold while the guard app is its client.
THEOREM GuardSpecFamily ==
    GuardSpec => [](OneCurrentToken /\ AnswerRecoverable /\ ExchangedOnce) /\ EndsForGood
BY GuardSpecRunsOnTheServer, SpecOneCurrentToken, SpecAnswerRecoverable,
   SpecExchangedOnce, SpecEndsForGood, PTL

\* The app's variables keep their types (session-context.tsx, storage.ts).
THEOREM GuardSpecTypeOK == GuardSpec => []GuardTypeOK
<1>1. GInv => GuardTypeOK
  BY DEF GInv
<1> QED
  BY <1>1, GuardSpecGInv, PTL

\* Whatever is lost, late, killed or refused, the app never has two requests of one
\* session and key with different tokens, and is never answered IDEMPOTENCY_KEY_REUSED: token
\* and key are stored together, though the references follow one after the other.
THEOREM GuardSpecKeyForOneToken == GuardSpec => []KeyForOneToken
<1>1. GInv => KeyForOneToken
  BY DEF GInv, OneTokenPerKey, KeyForOneToken, Held
<1> QED
  BY <1>1, GuardSpecGInv, PTL

\* As long as the server keeps the session, the credentials on the device still carry it
\* on, whatever was lost, killed or served late (session-context.tsx, storage.ts), until
\* a limiter's 429 retires a key or a renewed key meets another shift's token.
THEOREM GuardSpecShiftKept == GuardSpec => []ShiftKept
<1>1. KInv => ShiftKept
  <2> SUFFICES ASSUME KInv, Unspoilt, store # NoCredentials,
                      session[store.session] = "ACTIVE"
               PROVE  CarriesOn(store)
    BY DEF ShiftKept, CredentialRemains
  <2>1. store \in Credentials /\ InHand(store) /\ Live(store.session)
    BY DEF KInv, GInv, GuardTypeOK, InHand, Live
  <2> QED
    BY <2>1 DEF KInv, Remaining, AllCarryOn
<1> QED
  BY <1>1, GuardSpecKInv, PTL

\* Until then the app never presents a token it has spent: no loss, crash or delay makes
\* the server take the family for stolen.
THEOREM GuardSpecNeverItsOwnReplay == GuardSpec => NeverItsOwnReplay
<1>1. KInv /\ [GuardNext]_vars =>
          [\A s \in Sessions :
              Unspoilt /\ session[s] = "ACTIVE" => session'[s] # "COMPROMISED"]_vars
  BY NoReplayStep DEF Live
<1> QED
  BY <1>1, GuardSpecKInv, PTL DEF GuardSpec, NeverItsOwnReplay
=============================================================================
