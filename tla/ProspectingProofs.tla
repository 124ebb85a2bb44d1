------------------------ MODULE ProspectingProofs -------------------------
(***************************************************************************)
(* A Search from its two ends, createSearch, which the user calls, and the *)
(* research of a prospect, which calls the model; and what becomes of the  *)
(* findings, opportunities and scores.                                     *)
(***************************************************************************)
EXTENDS SearchIntake, ResearchCall, Opportunities, FiniteSetTheorems, WellFoundedInduction, TLAPS

---------------------------------------------------------------------------
(***************************************************************************)
(* Proofs that createSearch keeps its promises for any number of users,    *)
(* calls, keys and profiles.                                               *)
(*                                                                         *)
(* A call is three queries with everything else in between.  What carries  *)
(* it is that rows only move one way: a profile keeps its owner, its edits *)
(* only grow, it goes once and only while no Search refers to it; a Search *)
(* never changes, and there is at most one for a user's key.  So what a    *)
(* call has read stays a lower bound of what it will find (CallHolds).     *)
(***************************************************************************)

SearchRows == [owner : Users, profile : 1..MaxProfiles, edits : 0..MaxEdits,
               key : SearchKeys \cup {None}]
Calls == [pc : {"lookup", "profile", "insert", "done"}, user : Users,
          profile : 1..MaxProfiles, key : SearchKeys \cup {None},
          edits : 0..MaxEdits \cup {None}, answer : CallErrors \cup {"ok", None},
          search : Nat \cup {None}, began : Nat, edited : 0..MaxEdits]

Typed ==
    /\ profiles \in Seq(Rows \cup {None}) /\ Len(profiles) <= MaxProfiles
    /\ searches \in Seq(SearchRows)
    /\ call \in [Callers -> Calls \cup {NoCall}]
    /\ calls \in 0..MaxCalls

KeysAreUnique ==
    \A s, t \in DOMAIN searches :
        (/\ searches[s].key = searches[t].key /\ searches[s].key # None
         /\ searches[s].owner = searches[t].owner) => s = t

\* One Search, and the profile it came from.
Lineage(s) ==
    /\ searches[s].profile \in DOMAIN profiles
    /\ Owns(searches[s].owner, searches[s].profile)
    /\ searches[s].edits <= EditsOf(searches[s].profile)

\* What a call knows of its profile, and of the Searches that were there before it.
Read(c) ==
    LET p == call[c].profile IN
    /\ call[c].pc \in {"lookup", "profile"} =>
          call[c].edits = None /\ (profiles[p] = None \/ call[c].edited <= EditsOf(p))
    /\ call[c].pc = "insert" =>
          /\ call[c].edits \in 0..MaxEdits /\ call[c].edited <= call[c].edits
          /\ profiles[p] = None \/ (Owns(call[c].user, p) /\ call[c].edits <= EditsOf(p))

Unmade(c) ==
    call[c].pc \in {"profile", "insert"} =>
        \A s \in SearchWithKey(call[c].user, call[c].key) : ~(s <= call[c].began)

Fits(c) ==
    (call[c].pc = "done" /\ call[c].answer = "ok") =>
        LET s == call[c].search IN
        /\ s \in DOMAIN searches
        /\ searches[s].owner = call[c].user /\ searches[s].profile = call[c].profile
        /\ searches[s].key = call[c].key
        /\ call[c].edits # None => searches[s].edits \in call[c].edited..EditsOf(call[c].profile)

Honoured(c) ==
    call[c].pc = "done" =>
        /\ (\E s \in SearchWithKey(call[c].user, call[c].key) : s <= call[c].began) =>
              \/ call[c].answer = "conflict"
              \/ /\ call[c].answer = "ok" /\ call[c].search <= call[c].began
                 /\ call[c].search \in SearchWithKey(call[c].user, call[c].key)
        /\ call[c].answer = "unique violation" =>
              \E s \in SearchWithKey(call[c].user, call[c].key) : ~(s <= call[c].began)
        /\ call[c].answer = "conflict" =>
              \E s \in SearchWithKey(call[c].user, call[c].key) :
                  searches[s].profile # call[c].profile

CallHolds(c) ==
    call[c].pc # "idle" =>
        /\ call[c].profile \in DOMAIN profiles /\ call[c].began <= Len(searches)
        /\ call[c].search \in DOMAIN searches \cup {None}
        /\ Read(c) /\ Unmade(c) /\ Fits(c) /\ Honoured(c)

IntakeIInv ==
    /\ Typed
    /\ KeysAreUnique
    /\ \A s \in DOMAIN searches : Lineage(s)
    /\ \A c \in Callers : CallHolds(c)

--------------------------------------------------------------------------
(* Types.                                                                  *)

LEMMA CallTyped ==
    ASSUME Typed, NEW c \in Callers, call[c].pc # "idle"
    PROVE  call[c] \in Calls
BY DEF Typed, NoCall

LEMMA ProfileTyped ==
    ASSUME Typed, IntakeAssumptions, NEW p \in DOMAIN profiles
    PROVE  /\ profiles[p] # None => profiles[p] \in Rows
           /\ EditsOf(p) \in 0..MaxEdits
           /\ p \in 1..MaxProfiles
BY DEF Typed, IntakeAssumptions, EditsOf, Rows

LEMMA SearchPlaces ==
    ASSUME Typed
    PROVE  /\ DOMAIN searches = 1..Len(searches) /\ Len(searches) \in Nat
           /\ \A s \in DOMAIN searches : searches[s] \in SearchRows
           /\ \A user, key : SearchWithKey(user, key) \subseteq 1..Len(searches)
<1>1. searches \in Seq(SearchRows)
  BY DEF Typed
<1>2. DOMAIN searches = 1..Len(searches) /\ Len(searches) \in Nat
  BY <1>1
<1>3. \A s \in DOMAIN searches : searches[s] \in SearchRows
  BY <1>1
<1>4. \A user, key : SearchWithKey(user, key) \subseteq DOMAIN searches
  BY DEF SearchWithKey
<1> QED
  BY <1>2, <1>3, <1>4

LEMMA IntakeInitHolds == ASSUME IntakeAssumptions, IntakeInit PROVE IntakeIInv
<1>1. Typed
  BY DEF IntakeInit, Typed, IntakeAssumptions
<1>2. KeysAreUnique /\ \A s \in DOMAIN searches : Lineage(s)
  BY DEF IntakeInit, KeysAreUnique
<1>3. \A c \in Callers : CallHolds(c)
  BY DEF IntakeInit, CallHolds, NoCall
<1> QED
  BY <1>1, <1>2, <1>3 DEF IntakeIInv

--------------------------------------------------------------------------
(* A call's own steps.                                                     *)

\* A call whose record, profile and Searches stand still.
LEMMA Still ==
    ASSUME NEW d \in Callers, CallHolds(d), call'[d] = call[d], UNCHANGED <<profiles, searches>>
    PROVE  CallHolds(d)'
<1>1. SearchWithKey(call[d].user, call[d].key)' = SearchWithKey(call[d].user, call[d].key)
  BY DEF SearchWithKey
<1>2. EditsOf(call[d].profile)' = EditsOf(call[d].profile)
      /\ Owns(call[d].user, call[d].profile)' = Owns(call[d].user, call[d].profile)
  BY DEF EditsOf, Owns
<1>3. Read(d)' = Read(d)
  BY <1>2 DEF Read
<1>4. Unmade(d)' = Unmade(d) /\ Honoured(d)' = Honoured(d)
  BY <1>1 DEF Unmade, Honoured
<1>5. Fits(d)' = Fits(d)
  BY <1>2 DEF Fits
<1> QED
  BY <1>3, <1>4, <1>5 DEF CallHolds

\* A step of one call on its own record keeps the rest.
LEMMA CallStep ==
    ASSUME IntakeIInv, NEW c \in Callers, NEW rec \in Calls \cup {NoCall},
           call' = [call EXCEPT ![c] = rec], UNCHANGED <<profiles, searches>>,
           calls' \in 0..MaxCalls, CallHolds(c)'
    PROVE  IntakeIInv'
<1>1. call \in [Callers -> Calls \cup {NoCall}]
  BY DEF IntakeIInv, Typed
<1>2. call' \in [Callers -> Calls \cup {NoCall}] /\ \A d \in Callers \ {c} : call'[d] = call[d]
  BY <1>1
<1>3. Typed' /\ KeysAreUnique'
  BY <1>2 DEF IntakeIInv, Typed, KeysAreUnique
<1>4. \A s \in DOMAIN searches' : Lineage(s)'
  BY DEF IntakeIInv, Lineage, Owns, EditsOf
<1>5. ASSUME NEW d \in Callers PROVE CallHolds(d)'
  <2>1. CASE d = c
    BY <2>1
  <2>2. CASE d # c
    BY <1>2, <2>2, Still DEF IntakeIInv
  <2> QED
    BY <2>1, <2>2
<1> QED
  BY <1>3, <1>4, <1>5 DEF IntakeIInv

LEMMA AskKeeps ==
    ASSUME IntakeIInv, IntakeAssumptions, NEW c \in Callers, NEW user \in Users,
           NEW p \in DOMAIN profiles, NEW key \in SearchKeys \cup {None}, Ask(c, user, p, key)
    PROVE  IntakeIInv'
<1> DEFINE rec == [pc |-> IF key = None THEN "profile" ELSE "lookup",
                   user |-> user, profile |-> p, key |-> key,
                   edits |-> None, answer |-> None, search |-> None,
                   began |-> Len(searches), edited |-> EditsOf(p)]
<1>1. /\ call' = [call EXCEPT ![c] = rec] /\ UNCHANGED <<profiles, searches>>
      /\ calls' \in 0..MaxCalls
  BY DEF Ask, IntakeIInv, Typed, IntakeAssumptions
<1>2. EditsOf(p) \in 0..MaxEdits /\ p \in 1..MaxProfiles /\ Len(searches) \in Nat
  BY ProfileTyped DEF IntakeIInv, Typed
<1>3. rec \in Calls
  BY <1>2 DEF Calls
<1>4. call'[c] = rec
  BY <1>1 DEF IntakeIInv, Typed
<1>5. /\ rec.pc \in {"profile", "lookup"} /\ (rec.pc = "profile" => rec.key = None)
      /\ rec.profile = p /\ rec.edits = None /\ rec.began = Len(searches)
      /\ rec.edited = EditsOf(p) /\ rec.search = None
  OBVIOUS
<1> HIDE DEF rec
<1>6. CallHolds(c)'
  <2>1. Read(c)'
    BY <1>1, <1>2, <1>4, <1>5 DEF Read, EditsOf
  <2>2. Unmade(c)'
    BY <1>1, <1>4, <1>5 DEF Unmade, SearchWithKey
  <2>3. Fits(c)' /\ Honoured(c)'
    BY <1>4, <1>5 DEF Fits, Honoured
  <2> QED
    BY <1>1, <1>2, <1>4, <1>5, <2>1, <2>2, <2>3 DEF CallHolds
<1> QED
  BY <1>1, <1>3, <1>6, CallStep

\* What a call asked with does not change while it is under way.
LEMMA Refused ==
    ASSUME IntakeIInv, IntakeAssumptions, NEW c \in Callers, call[c].pc # "idle",
           NEW error \in CallErrors, RefuseCall(c, error), UNCHANGED <<profiles, searches, calls>>,
           \/ /\ error = "conflict"
              /\ \E s \in SearchWithKey(call[c].user, call[c].key) :
                    searches[s].profile # call[c].profile
           \/ /\ \A s \in SearchWithKey(call[c].user, call[c].key) : ~(s <= call[c].began)
              /\ error = "unique violation" => SearchWithKey(call[c].user, call[c].key) # {}
              /\ error # "conflict"
    PROVE  IntakeIInv'
<1> DEFINE rec == [call[c] EXCEPT !.pc = "done", !.answer = error]
<1>1. call[c] \in Calls /\ CallHolds(c)
  BY CallTyped DEF IntakeIInv
<1>2. call' = [call EXCEPT ![c] = rec]
  BY DEF RefuseCall
<1>3. rec \in Calls
  BY <1>1 DEF Calls
<1>4. /\ rec.pc = "done" /\ rec.answer = error /\ rec.profile = call[c].profile
      /\ rec.user = call[c].user /\ rec.key = call[c].key /\ rec.began = call[c].began
      /\ rec.search = call[c].search
  BY <1>1 DEF Calls
<1>5. call'[c] = rec
  BY <1>2 DEF IntakeIInv, Typed
<1> HIDE DEF rec
<1>6. Read(c)' /\ Unmade(c)' /\ Fits(c)'
  BY <1>4, <1>5 DEF Read, Unmade, Fits, CallErrors
<1>7. Honoured(c)'
  <2>1. SearchWithKey(call[c].user, call[c].key)' = SearchWithKey(call[c].user, call[c].key)
    BY <1>4, <1>5 DEF SearchWithKey
  <2>2. SearchWithKey(call[c].user, call[c].key) \subseteq 1..Len(searches) /\ Len(searches) \in Nat
    BY SearchPlaces DEF IntakeIInv
  <2>3. call[c].began \in Nat
    BY <1>1 DEF Calls
  <2>4. (\E s \in SearchWithKey(call[c].user, call[c].key) : s <= call[c].began)
          => error = "conflict"
    OBVIOUS
  <2>5. error = "unique violation" =>
          \E s \in SearchWithKey(call[c].user, call[c].key) : ~(s <= call[c].began)
    BY <2>2, <2>3
  <2>6. error = "conflict" =>
          \E s \in SearchWithKey(call[c].user, call[c].key) : searches[s].profile # call[c].profile
    OBVIOUS
  <2>7. \A s \in SearchWithKey(call[c].user, call[c].key) : searches'[s] = searches[s]
    OBVIOUS
  <2> QED
    BY <1>4, <1>5, <2>1, <2>4, <2>5, <2>6, <2>7 DEF Honoured
<1>8. CallHolds(c)'
  BY <1>1, <1>4, <1>5, <1>6, <1>7 DEF CallHolds
<1>9. calls' \in 0..MaxCalls
  BY DEF IntakeIInv, Typed
<1> QED
  BY <1>2, <1>3, <1>8, <1>9, CallStep

\* A call that is handed a Search which has what it asked for.
LEMMA Returned ==
    ASSUME IntakeIInv, IntakeAssumptions, NEW c \in Callers, call[c].pc \in {"lookup", "insert"},
           NEW s \in DOMAIN searches', Return(c, s), UNCHANGED <<profiles, calls>>,
           searches' \in Seq(SearchRows), Len(searches) <= Len(searches'),
           searches'[s].owner = call[c].user, searches'[s].profile = call[c].profile,
           searches'[s].key = call[c].key,
           call[c].edits # None => searches'[s].edits = call[c].edits
                                   /\ profiles[call[c].profile] # None,
           \A t \in SearchWithKey(call[c].user, call[c].key)' : t <= call[c].began => t = s
    PROVE  call' \in [Callers -> Calls \cup {NoCall}] /\ CallHolds(c)'
<1> DEFINE rec == [call[c] EXCEPT !.pc = "done", !.answer = "ok", !.search = s]
<1>1. call[c] \in Calls /\ CallHolds(c) /\ call[c].pc # "idle"
  BY CallTyped DEF IntakeIInv
<1>2. call' = [call EXCEPT ![c] = rec]
  BY DEF Return
<1>3. DOMAIN searches' = 1..Len(searches') /\ Len(searches') \in Nat /\ Len(searches) \in Nat
  BY SearchPlaces DEF IntakeIInv
<1>4. rec \in Calls
  <2>1. s \in Nat
    BY <1>3
  <2> QED
    BY <1>1, <2>1 DEF Calls
<1>5. /\ rec.pc = "done" /\ rec.answer = "ok" /\ rec.profile = call[c].profile
      /\ rec.user = call[c].user /\ rec.key = call[c].key /\ rec.began = call[c].began
      /\ rec.search = s /\ rec.edits = call[c].edits /\ rec.edited = call[c].edited
  BY <1>1 DEF Calls
<1>6. call'[c] = rec /\ call' \in [Callers -> Calls \cup {NoCall}]
  BY <1>2, <1>4 DEF IntakeIInv, Typed
<1> HIDE DEF rec
<1>7. Read(c)' /\ Unmade(c)'
  BY <1>5, <1>6 DEF Read, Unmade
<1>8. Fits(c)'
  <2>1. CASE call[c].edits = None
    BY <1>5, <1>6, <2>1 DEF Fits
  <2>2. CASE call[c].edits # None
    <3>1. call[c].pc = "insert"
      BY <1>1, <2>2 DEF CallHolds, Read
    <3>2. /\ call[c].edits \in 0..MaxEdits /\ call[c].edited <= call[c].edits
          /\ call[c].edits <= EditsOf(call[c].profile)
      BY <1>1, <2>2, <3>1 DEF CallHolds, Read
    <3>3. call[c].profile \in DOMAIN profiles /\ call[c].edited \in 0..MaxEdits
      BY <1>1 DEF CallHolds, Calls
    <3>4. EditsOf(call[c].profile) \in 0..MaxEdits
      BY <3>3, ProfileTyped DEF IntakeIInv
    <3>5. searches'[s].edits \in call[c].edited..EditsOf(call[c].profile)
      BY <2>2, <3>2, <3>3, <3>4 DEF IntakeAssumptions
    <3>6. EditsOf(call[c].profile)' = EditsOf(call[c].profile)
      BY <1>5, <1>6 DEF EditsOf
    <3> QED
      BY <1>5, <1>6, <3>5, <3>6 DEF Fits, EditsOf
  <2> QED
    BY <2>1, <2>2
<1>9. Honoured(c)'
  <2> SUFFICES ASSUME NEW t \in SearchWithKey(call[c].user, call[c].key)', t <= call'[c].began
               PROVE  /\ call'[c].search <= call'[c].began
                      /\ call'[c].search \in SearchWithKey(call[c].user, call[c].key)'
    BY <1>5, <1>6 DEF Honoured, CallErrors
  <2>1. SearchWithKey(call[c].user, call[c].key)'
          = {u \in DOMAIN searches' : call[c].key # None /\ searches'[u].key = call[c].key
                                       /\ searches'[u].owner = call[c].user}
    BY <1>5, <1>6 DEF SearchWithKey
  <2> QED
    BY <1>5, <1>6, <2>1
<1>10. call'[c].began <= Len(searches')
  BY <1>1, <1>3, <1>5, <1>6 DEF CallHolds, Calls
<1> QED
  BY <1>1, <1>5, <1>6, <1>7, <1>8, <1>9, <1>10 DEF CallHolds

LEMMA FindKeeps ==
    ASSUME IntakeIInv, IntakeAssumptions, NEW c \in Callers, FindByIdempotencyKey(c) PROVE IntakeIInv'
<1> DEFINE existing == SearchWithKey(call[c].user, call[c].key)
<1>1. call[c].pc = "lookup" /\ UNCHANGED <<profiles, searches, calls>>
  BY DEF FindByIdempotencyKey
<1>2. /\ call[c] \in Calls /\ CallHolds(c) /\ calls' \in 0..MaxCalls
      /\ call \in [Callers -> Calls \cup {NoCall}]
  BY <1>1, CallTyped DEF IntakeIInv, Typed
<1>3. CASE existing = {} /\ call' = [call EXCEPT ![c].pc = "profile"]
  <2> DEFINE rec == [call[c] EXCEPT !.pc = "profile"]
  <2>1. call' = [call EXCEPT ![c] = rec] /\ rec \in Calls
    BY <1>2, <1>3 DEF Calls
  <2>2. /\ rec.pc = "profile" /\ rec.profile = call[c].profile /\ rec.user = call[c].user
        /\ rec.key = call[c].key /\ rec.began = call[c].began /\ rec.search = call[c].search
        /\ rec.edits = call[c].edits /\ rec.edited = call[c].edited
    BY <1>2 DEF Calls
  <2>3. call'[c] = rec
    BY <1>2, <2>1
  <2> HIDE DEF rec
  <2>4. Read(c)'
    BY <1>1, <1>2, <2>2, <2>3 DEF CallHolds, Read, EditsOf
  <2>5. Unmade(c)'
    BY <1>1, <1>3, <2>2, <2>3 DEF Unmade, SearchWithKey
  <2>6. CallHolds(c)'
    BY <1>1, <1>2, <2>2, <2>3, <2>4, <2>5 DEF CallHolds, Fits, Honoured
  <2> QED
    BY <1>1, <1>2, <2>1, <2>6, CallStep
<1>4. ASSUME NEW s \in existing, searches[s].profile = call[c].profile, Return(c, s)
      PROVE  IntakeIInv'
  <2> DEFINE rec == [call[c] EXCEPT !.pc = "done", !.answer = "ok", !.search = s]
  <2>1. /\ s \in DOMAIN searches /\ searches[s].owner = call[c].user
        /\ searches[s].key = call[c].key /\ call[c].key # None
    BY DEF SearchWithKey
  <2>2. \A t \in SearchWithKey(call[c].user, call[c].key) : t = s
    BY <2>1 DEF IntakeIInv, KeysAreUnique, SearchWithKey
  <2>3. SearchWithKey(call[c].user, call[c].key)' \subseteq
          {u \in DOMAIN searches : searches[u].key # None /\ searches[u].key = call'[c].key
                                    /\ searches[u].owner = call'[c].user}
    BY <1>1 DEF SearchWithKey
  <2>4. call' = [call EXCEPT ![c] = rec] /\ rec \in Calls /\ rec.user = call[c].user
        /\ rec.key = call[c].key
    <3>1. s \in Nat
      BY <2>1, SearchPlaces DEF IntakeIInv
    <3> QED
      BY <1>2, <1>4, <3>1 DEF Return, Calls
  <2>5. \A t \in SearchWithKey(call[c].user, call[c].key)' : t = s
    BY <1>2, <2>1, <2>3, <2>4 DEF IntakeIInv, KeysAreUnique
  <2>6. call[c].edits = None
    BY <1>1, <1>2 DEF CallHolds, Read
  <2>7. CallHolds(c)'
    BY <1>1, <1>4, <2>1, <2>5, <2>6, Returned, SearchPlaces DEF IntakeIInv, Typed
  <2> QED
    BY <1>1, <1>2, <2>4, <2>7, CallStep
<1>5. ASSUME NEW s \in existing, searches[s].profile # call[c].profile, RefuseCall(c, "conflict")
      PROVE  IntakeIInv'
  BY <1>1, <1>5, Refused DEF CallErrors
<1> QED
  BY <1>3, <1>4, <1>5 DEF FindByIdempotencyKey

LEMMA GetProfileKeeps ==
    ASSUME IntakeIInv, IntakeAssumptions, NEW c \in Callers, GetProfile(c) PROVE IntakeIInv'
<1> DEFINE p == call[c].profile
<1>1. call[c].pc = "profile" /\ UNCHANGED <<profiles, searches, calls>>
  BY DEF GetProfile
<1>2. /\ call[c] \in Calls /\ CallHolds(c) /\ calls' \in 0..MaxCalls
      /\ call \in [Callers -> Calls \cup {NoCall}]
  BY <1>1, CallTyped DEF IntakeIInv, Typed
<1>3. CASE ~Owns(call[c].user, p)
  <2>1. \A s \in SearchWithKey(call[c].user, call[c].key) : ~(s <= call[c].began)
    BY <1>1, <1>2 DEF CallHolds, Unmade
  <2> QED
    BY <1>1, <1>3, <2>1, Refused DEF GetProfile, CallErrors
<1>4. CASE Owns(call[c].user, p)
  <2> DEFINE rec == [call[c] EXCEPT !.pc = "insert", !.edits = EditsOf(p)]
  <2>1. p \in DOMAIN profiles
    BY <1>1, <1>2 DEF CallHolds
  <2>2. EditsOf(p) \in 0..MaxEdits
    BY <2>1, ProfileTyped DEF IntakeIInv
  <2>3. call' = [call EXCEPT ![c] = rec]
    BY <1>4 DEF GetProfile
  <2>4. rec \in Calls
    BY <1>2, <2>2 DEF Calls
  <2>5. /\ rec.pc = "insert" /\ rec.profile = p /\ rec.user = call[c].user
        /\ rec.key = call[c].key /\ rec.began = call[c].began /\ rec.search = call[c].search
        /\ rec.edits = EditsOf(p) /\ rec.edited = call[c].edited
    BY <1>2 DEF Calls
  <2>6. call'[c] = rec
    BY <1>2, <2>3
  <2> HIDE DEF rec
  <2>7. call[c].edited <= EditsOf(p)
    BY <1>1, <1>2, <1>4 DEF CallHolds, Read, Owns
  <2>8. Read(c)'
    <3>1. EditsOf(p) <= EditsOf(p)
      BY <2>2 DEF IntakeAssumptions
    <3> QED
      BY <1>1, <1>4, <2>2, <2>5, <2>6, <2>7, <3>1 DEF Read, EditsOf, Owns
  <2>9. Unmade(c)'
    <3>1. \A s \in SearchWithKey(call[c].user, call[c].key) : ~(s <= call[c].began)
      BY <1>1, <1>2 DEF CallHolds, Unmade
    <3> QED
      BY <1>1, <2>5, <2>6, <3>1 DEF Unmade, SearchWithKey
  <2>10. CallHolds(c)'
    BY <1>1, <1>2, <2>5, <2>6, <2>8, <2>9 DEF CallHolds, Fits, Honoured
  <2> QED
    BY <1>1, <1>2, <2>3, <2>4, <2>10, CallStep
<1> QED
  BY <1>3, <1>4

LEMMA InsertSearchKeeps ==
    ASSUME IntakeIInv, IntakeAssumptions, NEW c \in Callers, InsertSearch(c) PROVE IntakeIInv'
<1> DEFINE p == call[c].profile
           n == Len(searches) + 1
           row == [owner |-> call[c].user, profile |-> p, edits |-> call[c].edits,
                   key |-> call[c].key]
<1>1. call[c].pc = "insert" /\ UNCHANGED <<profiles, calls>>
  BY DEF InsertSearch
<1>2. /\ call[c] \in Calls /\ CallHolds(c) /\ calls' \in 0..MaxCalls
      /\ call \in [Callers -> Calls \cup {NoCall}]
  BY <1>1, CallTyped DEF IntakeIInv, Typed
<1>3. \A s \in SearchWithKey(call[c].user, call[c].key) : ~(s <= call[c].began)
  BY <1>1, <1>2 DEF CallHolds, Unmade
<1>4. CASE \/ /\ SearchWithKey(call[c].user, call[c].key) # {}
              /\ RefuseCall(c, "unique violation") /\ UNCHANGED searches
           \/ /\ SearchWithKey(call[c].user, call[c].key) = {}
              /\ RefuseCall(c, "foreign key violation") /\ UNCHANGED searches
  BY <1>1, <1>3, <1>4, Refused DEF CallErrors
<1>5. CASE /\ SearchWithKey(call[c].user, call[c].key) = {} /\ profiles[p] # None
           /\ searches' = Append(searches, row) /\ Return(c, n)
  <2>1. /\ call[c].edits \in 0..MaxEdits /\ Owns(call[c].user, p)
        /\ call[c].edits <= EditsOf(p) /\ p \in DOMAIN profiles
    BY <1>1, <1>2, <1>5 DEF CallHolds, Read
  <2>2. row \in SearchRows
    BY <1>2, <2>1 DEF SearchRows, Calls
  <2>3. /\ searches \in Seq(SearchRows) /\ DOMAIN searches = 1..Len(searches)
        /\ Len(searches) \in Nat
    BY SearchPlaces DEF IntakeIInv, Typed
  <2>4. /\ row.owner = call[c].user /\ row.profile = p /\ row.edits = call[c].edits
        /\ row.key = call[c].key
    OBVIOUS
  <2> HIDE DEF row
  <2>5. /\ searches' \in Seq(SearchRows) /\ Len(searches') = n /\ DOMAIN searches' = 1..n
        /\ searches'[n] = row /\ \A s \in 1..Len(searches) : searches'[s] = searches[s]
    BY <1>5, <2>2, <2>3
  <2>6. n \in DOMAIN searches' /\ DOMAIN searches' = DOMAIN searches \cup {n}
        /\ n \notin DOMAIN searches
    BY <2>3, <2>5
  <2>7. \A user, key : \A t \in DOMAIN searches' :
           (/\ key # None /\ searches'[t].key = key /\ searches'[t].owner = user)
             => t = n \/ t \in SearchWithKey(user, key)
    BY <2>3, <2>5, <2>6 DEF SearchWithKey
  <2>8. \A user, key : \A t \in SearchWithKey(user, key) :
           /\ t \in DOMAIN searches' /\ key # None /\ searches'[t].key = key
           /\ searches'[t].owner = user /\ searches'[t] = searches[t]
    BY <2>3, <2>5, <2>6 DEF SearchWithKey
  <2>9. call'[c].user = call[c].user /\ call'[c].key = call[c].key
        /\ \A d \in Callers \ {c} : call'[d] = call[d]
    BY <1>2, <1>5 DEF Return, Calls
  <2>10. call' \in [Callers -> Calls \cup {NoCall}] /\ CallHolds(c)'
    <3>1. \A t \in SearchWithKey(call[c].user, call[c].key)' : t = n
      BY <1>5, <2>7, <2>9 DEF SearchWithKey
    <3>2. Len(searches) <= Len(searches')
      BY <2>3, <2>5
    <3> QED
      BY <1>1, <1>5, <2>4, <2>5, <2>6, <3>1, <3>2, Returned
  <2>11. Typed'
    BY <1>1, <1>2, <2>5, <2>10 DEF IntakeIInv, Typed
  <2>12. KeysAreUnique'
    <3> SUFFICES ASSUME NEW s \in DOMAIN searches', NEW t \in DOMAIN searches',
                        searches'[s].key = searches'[t].key, searches'[s].key # None,
                        searches'[s].owner = searches'[t].owner
                 PROVE  s = t
      BY DEF KeysAreUnique
    <3>1. CASE s = n /\ t # n
      BY <1>5, <2>4, <2>5, <2>7, <3>1
    <3>2. CASE t = n /\ s # n
      BY <1>5, <2>4, <2>5, <2>7, <3>2
    <3>3. CASE s # n /\ t # n
      <4>1. /\ s \in DOMAIN searches /\ t \in DOMAIN searches
            /\ searches'[s] = searches[s] /\ searches'[t] = searches[t]
        BY <2>3, <2>5, <2>6, <3>3
      <4> QED
        BY <4>1 DEF IntakeIInv, KeysAreUnique
    <3> QED
      BY <3>1, <3>2, <3>3
  <2>13. ASSUME NEW s \in DOMAIN searches' PROVE Lineage(s)'
    <3>1. CASE s = n
      BY <1>1, <2>1, <2>4, <2>5, <3>1 DEF Lineage, Owns, EditsOf
    <3>2. CASE s # n
      <4>1. s \in DOMAIN searches /\ searches'[s] = searches[s]
        BY <2>3, <2>5, <2>6, <3>2
      <4> QED
        BY <1>1, <4>1 DEF IntakeIInv, Lineage, Owns, EditsOf
    <3> QED
      BY <3>1, <3>2
  <2>14. ASSUME NEW d \in Callers \ {c}, call[d].pc # "idle" PROVE CallHolds(d)'
    <3>1. call[d] \in Calls /\ CallHolds(d) /\ call'[d] = call[d]
      BY <2>9, <2>14, CallTyped DEF IntakeIInv
    <3>2. /\ call[d].profile \in DOMAIN profiles /\ call[d].began <= Len(searches)
          /\ call[d].search \in DOMAIN searches \cup {None}
          /\ Read(d) /\ Unmade(d) /\ Fits(d) /\ Honoured(d)
      BY <2>14, <3>1 DEF CallHolds
    <3>3. call[d].began \in Nat
      BY <3>1 DEF Calls
    <3>4. ~(n <= call[d].began) /\ call[d].began <= n
      BY <2>3, <3>2, <3>3
    <3>5. Read(d)'
      BY <1>1, <3>1, <3>2 DEF Read, Owns, EditsOf
    <3>6. Unmade(d)'
      BY <2>7, <3>1, <3>2, <3>4 DEF Unmade, SearchWithKey
    <3>7. Fits(d)'
      <4> SUFFICES ASSUME call[d].pc = "done", call[d].answer = "ok"
                   PROVE  Fits(d)'
        BY <3>1 DEF Fits
      <4>1. call[d].search \in DOMAIN searches
        BY <3>2 DEF Fits
      <4>2. /\ searches'[call[d].search] = searches[call[d].search]
            /\ call[d].search \in DOMAIN searches'
        BY <2>3, <2>5, <2>6, <4>1
      <4>3. EditsOf(call[d].profile)' = EditsOf(call[d].profile)
        BY <1>1, <3>1 DEF EditsOf
      <4> QED
        BY <3>1, <3>2, <4>2, <4>3 DEF Fits
    <3>8. Honoured(d)'
      <4> SUFFICES ASSUME call[d].pc = "done" PROVE Honoured(d)'
        BY <3>1 DEF Honoured
      <4> DEFINE made == SearchWithKey(call[d].user, call[d].key)
                 later == {t \in DOMAIN searches' : /\ call[d].key # None
                                                    /\ searches'[t].key = call[d].key
                                                    /\ searches'[t].owner = call[d].user}
      <4>1. made \subseteq later /\ later \subseteq made \cup {n}
            /\ \A t \in made : searches'[t] = searches[t]
        BY <2>7, <2>8
      <4>2. SearchWithKey(call[d].user, call[d].key)' = later
        BY <3>1 DEF SearchWithKey
      <4>3. /\ (\E s \in made : s <= call[d].began) =>
                 \/ call[d].answer = "conflict"
                 \/ /\ call[d].answer = "ok" /\ call[d].search <= call[d].began
                    /\ call[d].search \in made
            /\ call[d].answer = "unique violation" =>
                 \E s \in made : ~(s <= call[d].began)
            /\ call[d].answer = "conflict" =>
                 \E s \in made : searches[s].profile # call[d].profile
        BY <3>2 DEF Honoured
      <4> HIDE DEF made, later
      <4> QED
        BY <3>1, <3>4, <4>1, <4>2, <4>3 DEF Honoured
    <3>9. call[d].began <= Len(searches')
      BY <2>5, <3>4
    <3> QED
      BY <1>1, <2>6, <3>1, <3>2, <3>5, <3>6, <3>7, <3>8, <3>9 DEF CallHolds
  <2>15. ASSUME NEW d \in Callers PROVE CallHolds(d)'
    <3>1. CASE d # c /\ call[d].pc = "idle"
      BY <2>9, <3>1 DEF CallHolds
    <3> QED
      BY <2>10, <2>14, <3>1
  <2> QED
    BY <2>11, <2>12, <2>13, <2>15 DEF IntakeIInv
<1> QED
  BY <1>4, <1>5 DEF InsertSearch

LEMMA AbandonKeeps ==
    ASSUME IntakeIInv, IntakeAssumptions, NEW c \in Callers, Abandon(c) PROVE IntakeIInv'
<1>1. /\ call' = [call EXCEPT ![c] = NoCall] /\ UNCHANGED <<profiles, searches>>
      /\ calls' \in 0..MaxCalls
  BY DEF Abandon, IntakeIInv, Typed
<1>2. call'[c] = NoCall
  BY <1>1 DEF IntakeIInv, Typed
<1>3. CallHolds(c)'
  BY <1>2 DEF CallHolds, NoCall
<1> QED
  BY <1>1, <1>3, CallStep

--------------------------------------------------------------------------
(* The service profiles.                                                   *)

\* A profile keeps its owner, its edits only grow, and one that a Search refers to stays.
LEMMA ProfileStep ==
    ASSUME IntakeIInv, IntakeAssumptions, UNCHANGED <<searches, call, calls>>,
           profiles' \in Seq(Rows \cup {None}), Len(profiles') <= MaxProfiles,
           DOMAIN profiles \subseteq DOMAIN profiles',
           \A p \in DOMAIN profiles :
              \/ /\ profiles[p] # None /\ profiles'[p] # None
                 /\ profiles'[p].owner = profiles[p].owner
                 /\ profiles[p].edits <= profiles'[p].edits
              \/ /\ profiles'[p] = None
                 /\ \A s \in DOMAIN searches : searches[s].profile # p
    PROVE  IntakeIInv'
<1>1. Typed' /\ KeysAreUnique'
  BY DEF IntakeIInv, Typed, KeysAreUnique
<1>2. \A p \in DOMAIN profiles : EditsOf(p) \in 0..MaxEdits /\ EditsOf(p)' \in 0..MaxEdits
  <2>1. \A p \in DOMAIN profiles' : EditsOf(p)' \in 0..MaxEdits
    BY DEF EditsOf, Rows, IntakeAssumptions
  <2> QED
    BY <2>1, ProfileTyped DEF IntakeIInv
<1>3. \A p \in DOMAIN profiles : profiles[p] # None /\ profiles'[p] # None =>
          /\ profiles'[p].owner = profiles[p].owner
          /\ \A e \in 0..MaxEdits : e <= EditsOf(p) => e <= EditsOf(p)'
  <2> SUFFICES ASSUME NEW p \in DOMAIN profiles, profiles[p] # None, profiles'[p] # None,
                      NEW e \in 0..MaxEdits, e <= EditsOf(p)
               PROVE  profiles'[p].owner = profiles[p].owner /\ e <= EditsOf(p)'
    BY DEF IntakeAssumptions
  <2>1. EditsOf(p) <= EditsOf(p)' /\ EditsOf(p) \in Nat /\ EditsOf(p)' \in Nat /\ e \in Nat
    BY <1>2 DEF EditsOf, IntakeAssumptions
  <2> QED
    BY <2>1
<1>4. ASSUME NEW s \in DOMAIN searches PROVE Lineage(s)' /\ profiles'[searches[s].profile] # None
  <2> DEFINE p == searches[s].profile
  <2>1. Lineage(s) /\ searches[s] \in SearchRows
    BY SearchPlaces DEF IntakeIInv
  <2>2. p \in DOMAIN profiles /\ profiles[p] # None /\ profiles'[p] # None
    BY <2>1 DEF Lineage, Owns
  <2>3. searches[s].edits \in 0..MaxEdits /\ searches[s].edits <= EditsOf(p)'
    BY <1>3, <2>1, <2>2 DEF Lineage, SearchRows
  <2> QED
    BY <1>3, <2>1, <2>2, <2>3 DEF Lineage, Owns, EditsOf
<1>5. ASSUME NEW c \in Callers, call[c].pc # "idle" PROVE CallHolds(c)'
  <2> DEFINE p == call[c].profile
  <2>1. call[c] \in Calls /\ CallHolds(c)
    BY <1>5, CallTyped DEF IntakeIInv
  <2>2. /\ p \in DOMAIN profiles /\ call[c].began <= Len(searches)
        /\ call[c].search \in DOMAIN searches \cup {None}
        /\ Read(c) /\ Unmade(c) /\ Fits(c) /\ Honoured(c)
    BY <1>5, <2>1 DEF CallHolds
  <2>3. call[c].edited \in 0..MaxEdits
    BY <2>1 DEF Calls
  <2>4. Read(c)'
    <3>1. profiles[p] = None => profiles'[p] = None
      BY <2>2
    <3>2. call[c].pc \in {"lookup", "profile"} =>
             call[c].edits = None /\ (profiles'[p] = None \/ call[c].edited <= EditsOf(p)')
      BY <1>3, <2>2, <2>3, <3>1 DEF Read
    <3>3. call[c].pc = "insert" =>
             /\ call[c].edits \in 0..MaxEdits /\ call[c].edited <= call[c].edits
             /\ profiles'[p] = None \/ (/\ profiles'[p] # None
                                        /\ profiles'[p].owner = call[c].user
                                        /\ call[c].edits <= EditsOf(p)')
      BY <1>3, <2>2, <3>1 DEF Read, Owns
    <3> QED
      BY <3>2, <3>3 DEF Read, Owns, EditsOf
  <2>5. Unmade(c)' /\ Honoured(c)'
    BY <2>2 DEF Unmade, Honoured, SearchWithKey
  <2>6. Fits(c)'
    <3> SUFFICES ASSUME call[c].pc = "done", call[c].answer = "ok", call[c].edits # None
                 PROVE  searches[call[c].search].edits \in call[c].edited..EditsOf(p)'
      BY <2>2 DEF Fits, EditsOf
    <3> DEFINE s == call[c].search
    <3>1. /\ s \in DOMAIN searches /\ searches[s].profile = p
          /\ searches[s].edits \in call[c].edited..EditsOf(p)
      BY <2>2 DEF Fits
    <3>2. searches[s].edits \in 0..MaxEdits /\ profiles'[p] # None /\ profiles[p] # None
      BY <1>4, <2>2, <3>1, SearchPlaces DEF SearchRows, IntakeIInv, Lineage, Owns
    <3>3. searches[s].edits <= EditsOf(p) /\ call[c].edited <= searches[s].edits
      BY <1>2, <2>2, <2>3, <3>1 DEF IntakeAssumptions
    <3>4. searches[s].edits <= EditsOf(p)'
      BY <1>3, <2>2, <3>2, <3>3
    <3> QED
      BY <1>2, <2>2, <2>3, <3>2, <3>3, <3>4 DEF IntakeAssumptions
  <2> QED
    BY <2>2, <2>4, <2>5, <2>6 DEF CallHolds
<1>6. \A c \in Callers : CallHolds(c)'
  BY <1>5 DEF CallHolds
<1> QED
  BY <1>1, <1>4, <1>6 DEF IntakeIInv

LEMMA CreateProfileKeeps ==
    ASSUME IntakeIInv, IntakeAssumptions, NEW user \in Users, CreateServiceProfile(user) PROVE IntakeIInv'
<1> DEFINE row == [owner |-> user, edits |-> 0]
<1>1. /\ Len(profiles) < MaxProfiles /\ profiles' = Append(profiles, row)
      /\ UNCHANGED <<searches, call, calls>>
  BY DEF CreateServiceProfile
<1>2. row \in Rows
  BY DEF Rows, IntakeAssumptions
<1>3. profiles \in Seq(Rows \cup {None}) /\ Len(profiles) \in Nat
  BY DEF IntakeIInv, Typed
<1> HIDE DEF row
<1>4. /\ profiles' \in Seq(Rows \cup {None}) /\ Len(profiles') = Len(profiles) + 1
      /\ DOMAIN profiles = 1..Len(profiles) /\ DOMAIN profiles' = 1..(Len(profiles) + 1)
      /\ \A p \in 1..Len(profiles) : profiles'[p] = profiles[p]
  BY <1>1, <1>2, <1>3
<1>5. DOMAIN profiles \subseteq DOMAIN profiles' /\ Len(profiles') <= MaxProfiles
  BY <1>1, <1>3, <1>4 DEF IntakeAssumptions
<1>6. ASSUME NEW p \in DOMAIN profiles
      PROVE  \/ /\ profiles[p] # None /\ profiles'[p] # None
                /\ profiles'[p].owner = profiles[p].owner
                /\ profiles[p].edits <= profiles'[p].edits
             \/ /\ profiles'[p] = None
                /\ \A s \in DOMAIN searches : searches[s].profile # p
  <2>1. profiles'[p] = profiles[p]
    BY <1>4
  <2>2. profiles[p] # None => profiles[p].edits \in 0..MaxEdits
    BY ProfileTyped DEF IntakeIInv, Rows
  <2>3. profiles[p] = None => \A s \in DOMAIN searches : searches[s].profile # p
    BY DEF IntakeIInv, Lineage, Owns
  <2> QED
    BY <2>1, <2>2, <2>3 DEF IntakeAssumptions
<1> QED
  BY <1>1, <1>4, <1>5, <1>6, ProfileStep

LEMMA WriteProfileKeeps ==
    ASSUME IntakeIInv, IntakeAssumptions, NEW user \in Users, NEW p \in DOMAIN profiles,
           UpdateServiceProfile(user, p) \/ DeleteServiceProfile(user, p)
    PROVE  IntakeIInv'
<1>1. /\ profiles \in Seq(Rows \cup {None}) /\ profiles[p] # None /\ profiles[p] \in Rows
      /\ UNCHANGED <<searches, call, calls>> /\ Len(profiles) <= MaxProfiles
  BY ProfileTyped DEF IntakeIInv, Typed, UpdateServiceProfile, DeleteServiceProfile, Owns
<1>2. ASSUME NEW row \in Rows \cup {None}, profiles' = [profiles EXCEPT ![p] = row],
             \/ /\ row # None /\ row.owner = profiles[p].owner /\ profiles[p].edits <= row.edits
             \/ row = None /\ \A s \in DOMAIN searches : searches[s].profile # p
      PROVE  IntakeIInv'
  <2>1. /\ profiles' \in Seq(Rows \cup {None}) /\ Len(profiles') = Len(profiles)
        /\ DOMAIN profiles' = DOMAIN profiles /\ profiles'[p] = row
        /\ \A q \in DOMAIN profiles \ {p} : profiles'[q] = profiles[q]
    BY <1>1, <1>2
  <2>2. ASSUME NEW q \in DOMAIN profiles
        PROVE  \/ /\ profiles[q] # None /\ profiles'[q] # None
                  /\ profiles'[q].owner = profiles[q].owner
                  /\ profiles[q].edits <= profiles'[q].edits
               \/ /\ profiles'[q] = None
                  /\ \A s \in DOMAIN searches : searches[s].profile # q
    <3>1. CASE q = p
      BY <1>1, <1>2, <2>1, <3>1
    <3>2. CASE q # p
      <4>1. profiles'[q] = profiles[q]
        BY <2>1, <3>2
      <4>2. profiles[q] # None => profiles[q].edits \in 0..MaxEdits
        BY ProfileTyped DEF IntakeIInv, Rows
      <4>3. profiles[q] = None => \A s \in DOMAIN searches : searches[s].profile # q
        BY DEF IntakeIInv, Lineage, Owns
      <4> QED
        BY <4>1, <4>2, <4>3 DEF IntakeAssumptions
    <3> QED
      BY <3>1, <3>2
  <2> QED
    BY <1>1, <2>1, <2>2, ProfileStep
<1>3. CASE UpdateServiceProfile(user, p)
  <2> DEFINE row == [profiles[p] EXCEPT !.edits = @ + 1]
  <2>1. profiles' = [profiles EXCEPT ![p] = row] /\ profiles[p].edits < MaxEdits
    BY <1>3 DEF UpdateServiceProfile
  <2>2. profiles[p].edits \in 0..MaxEdits
    BY <1>1 DEF Rows
  <2>3. profiles[p].edits + 1 \in 0..MaxEdits /\ profiles[p].edits <= profiles[p].edits + 1
    BY <2>1, <2>2 DEF IntakeAssumptions
  <2>4. row \in Rows /\ row.owner = profiles[p].owner /\ row.edits = profiles[p].edits + 1
    BY <1>1, <2>3 DEF Rows
  <2> HIDE DEF row
  <2> QED
    BY <1>2, <2>1, <2>3, <2>4 DEF IntakeAssumptions
<1>4. CASE DeleteServiceProfile(user, p)
  BY <1>2, <1>4 DEF DeleteServiceProfile
<1> QED
  BY <1>3, <1>4

--------------------------------------------------------------------------
(* The invariant.                                                          *)

LEMMA IntakeNextKeeps == ASSUME IntakeIInv, IntakeAssumptions, [IntakeNext]_intakeVars PROVE IntakeIInv'
<1>1. ASSUME NEW user \in Users, CreateServiceProfile(user) PROVE IntakeIInv'
  BY <1>1, CreateProfileKeeps
<1>2. ASSUME NEW user \in Users, NEW p \in DOMAIN profiles,
             UpdateServiceProfile(user, p) \/ DeleteServiceProfile(user, p)
      PROVE  IntakeIInv'
  BY <1>2, WriteProfileKeeps
<1>3. ASSUME NEW user \in Users, NEW p \in DOMAIN profiles, NEW c \in Callers,
             NEW key \in SearchKeys \cup {None}, Ask(c, user, p, key)
      PROVE  IntakeIInv'
  BY <1>3, AskKeeps
<1>4. ASSUME NEW c \in Callers,
             FindByIdempotencyKey(c) \/ GetProfile(c) \/ InsertSearch(c) \/ Abandon(c)
      PROVE  IntakeIInv'
  BY <1>4, FindKeeps, GetProfileKeeps, InsertSearchKeeps, AbandonKeeps
<1>5. CASE UNCHANGED intakeVars
  <2>1. UNCHANGED <<profiles, searches, call, calls>>
    BY <1>5 DEF intakeVars
  <2>2. \A c \in Callers : CallHolds(c)'
    BY <2>1, Still DEF IntakeIInv
  <2> QED
    BY <2>1, <2>2 DEF IntakeIInv, Typed, KeysAreUnique, Lineage, Owns, EditsOf
<1> QED
  BY <1>1, <1>2, <1>3, <1>4, <1>5 DEF IntakeNext

\* The inductive invariant holds in every state (createSearch and the service profiles).
THEOREM IntakeInvariance == IntakeSpec => []IntakeIInv
<1>1. IntakeInit => IntakeIInv
  BY IntakeInitHolds, IntakeConstants
<1>2. IntakeIInv /\ [IntakeNext]_intakeVars => IntakeIInv'
  BY IntakeNextKeeps, IntakeConstants
<1> QED
  BY <1>1, <1>2, PTL DEF IntakeSpec

\* Profiles, Searches and calls keep to their domains, and a call refers to what there is.
LEMMA Types == ASSUME IntakeIInv PROVE IntakeTypeOK
<1>1. ASSUME NEW c \in Callers, call[c] # NoCall
      PROVE  /\ call[c] \in Calls /\ call[c].profile \in DOMAIN profiles
             /\ call[c].search \in DOMAIN searches \cup {None}
             /\ call[c].began \in 0..Len(searches)
  <2>1. call[c] \in Calls
    BY <1>1 DEF IntakeIInv, Typed
  <2>2. call[c].pc # "idle" /\ call[c].began \in Nat
    BY <2>1 DEF Calls
  <2>3. /\ call[c].profile \in DOMAIN profiles /\ call[c].search \in DOMAIN searches \cup {None}
        /\ call[c].began <= Len(searches)
    BY <1>1, <2>2 DEF IntakeIInv, CallHolds
  <2>4. Len(searches) \in Nat
    BY <1>1, SearchPlaces DEF IntakeIInv
  <2> QED
    BY <2>1, <2>2, <2>3, <2>4
<1> QED
  BY <1>1 DEF IntakeIInv, Typed, IntakeTypeOK, Calls, SearchRows

LEMMA Promised == ASSUME IntakeIInv PROVE SearchIntakeHolds
<1>1. SearchFitsRequest
  BY DEF IntakeIInv, CallHolds, Fits, SearchFitsRequest
<1>2. LineageIsKept
  BY DEF IntakeIInv, Lineage, LineageIsKept
<1>3. RetriesAreHonoured
  BY DEF IntakeIInv, CallHolds, Honoured, RetriesAreHonoured
<1> QED
  BY <1>1, <1>2, <1>3, Types DEF SearchIntakeHolds

\* Whatever calls, edits, deletions and retries interleave, a Search is a copy of what its
\* profile said during the call that made it, one is made for a user's key and sequential
\* retries are handed it, and no Search loses its profile (createSearch, migration 0014).
THEOREM SearchIntakeHoldsAlways == IntakeSpec => []SearchIntakeHolds
<1>1. IntakeIInv => SearchIntakeHolds
  BY Promised
<1> QED
  BY <1>1, IntakeInvariance, PTL

---------------------------------------------------------------------------
(***************************************************************************)
(* A research keeps what it promises (ResearchHolds) for every set of      *)
(* documents, claims and observations and every budget of attempts.        *)
(***************************************************************************)

\* What shape and provenance object to, claim by claim.
Misshapen(claim) == (claim.class = "OBSERVED" <=> claim.citations = {}) \/ ~claim.fits
Unfounded(claim) ==
    claim.class = "OBSERVED" /\ \E citation \in claim.citations : ~Cited(citation)

Misshaped(document) == {o \in Observations : Misshapen(document[o])}
Ungrounded(document) == {o \in Observations : Unfounded(document[o])}

LEMMA ShapeIsPointwise ==
    ASSUME NEW document
    PROVE  /\ ZodIssues(document) = {} <=> Misshaped(document) = {}
           /\ RepairRoots(ZodIssues(document)) = Misshaped(document)
<1>1. \A o \in Misshaped(document) : \E i \in ZodIssues(document) : i.root = o
  <2> SUFFICES ASSUME NEW o \in Misshaped(document)
               PROVE  \E i \in ZodIssues(document) : i.root = o
    OBVIOUS
  <2>1. CASE document[o].class = "OBSERVED" <=> document[o].citations = {}
    <3>1. [root |-> o, evidence |-> TRUE] \in ZodIssues(document)
      BY <2>1 DEF ZodIssues, Misshaped
    <3> QED BY <3>1
  <2>2. CASE ~document[o].fits
    <3>1. [root |-> o, evidence |-> FALSE] \in ZodIssues(document)
      BY <2>2 DEF ZodIssues, Misshaped
    <3> QED BY <3>1
  <2> QED BY <2>1, <2>2 DEF Misshaped, Misshapen
<1>2. \A i \in ZodIssues(document) : i.root \in Misshaped(document)
  BY DEF ZodIssues, Misshaped, Misshapen
<1>3. ZodIssues(document) = {} <=> Misshaped(document) = {}
  BY <1>1, <1>2
<1>4. RepairRoots(ZodIssues(document)) = Misshaped(document)
  BY <1>1, <1>2 DEF RepairRoots
<1> QED BY <1>3, <1>4

LEMMA ProvenanceIsPointwise ==
    ASSUME NEW document
    PROVE  /\ ProvenanceIssues(document) = {} <=> Ungrounded(document) = {}
           /\ RepairRoots(ProvenanceIssues(document)) = Ungrounded(document)
           /\ NeedsSourceContext(ProvenanceIssues(document)) <=> Ungrounded(document) # {}
<1>1. ProvenanceIssues(document)
        = {[root |-> o, evidence |-> TRUE] : o \in Ungrounded(document)}
  BY DEF ProvenanceIssues, Ungrounded, Unfounded
<1>2. \A o \in Ungrounded(document) :
        \E i \in ProvenanceIssues(document) : i.root = o /\ i.evidence
  <2>1. \A o \in Ungrounded(document) :
          [root |-> o, evidence |-> TRUE] \in ProvenanceIssues(document)
    BY <1>1
  <2> QED BY <2>1
<1>3. \A i \in ProvenanceIssues(document) : i.root \in Ungrounded(document)
  BY <1>1
<1>4. RepairRoots(ProvenanceIssues(document)) = Ungrounded(document)
  BY <1>2, <1>3 DEF RepairRoots
<1>5. ProvenanceIssues(document) = {} <=> Ungrounded(document) = {}
  BY <1>2, <1>3
<1>6. NeedsSourceContext(ProvenanceIssues(document)) <=> Ungrounded(document) # {}
  BY <1>2, <1>3 DEF NeedsSourceContext
<1> QED BY <1>4, <1>5, <1>6

\* A document has no issue exactly when no claim is out of shape or without foundation, and
\* only a claim that is one or the other is repaired.
LEMMA IssuesArePointwise ==
    ASSUME NEW document
    PROVE  /\ Issues(document) = {} <=> Misshaped(document) = {} /\ Ungrounded(document) = {}
           /\ RepairRoots(Issues(document)) =
                IF Misshaped(document) # {} THEN Misshaped(document) ELSE Ungrounded(document)
           /\ (Misshaped(document) = {} /\ Ungrounded(document) # {})
                => NeedsSourceContext(Issues(document))
BY ShapeIsPointwise, ProvenanceIsPointwise DEF Issues

\* Upserted documents told apart by their URLs, the first one with a URL is the one there is.
LEMMA CitedIsFound ==
    ASSUME NEW citation
    PROVE  Cited(citation) <=>
             /\ citation.quote \notin TooShort
             /\ \E d \in Range(SourceDocuments) :
                   d.url = citation.url /\ citation.quote \in d.quotes
<1>1. ASSUME NEW i \in DOMAIN SourceDocuments, SourceDocuments[i].url = citation.url
      PROVE  \A j \in 1..(i - 1) : SourceDocuments[j].url # citation.url
  <2>1. DOMAIN SourceDocuments = 1..Len(SourceDocuments) /\ Len(SourceDocuments) \in Nat
    BY ResearchConstants
  <2>2. \A j \in 1..(i - 1) : j \in DOMAIN SourceDocuments /\ j # i
    BY <2>1
  <2>3. \A j \in DOMAIN SourceDocuments :
          SourceDocuments[j].url = SourceDocuments[i].url => j = i
    BY ResearchConstants
  <2> QED BY <1>1, <2>2, <2>3
<1> QED BY <1>1 DEF Cited, Range

LEMMA GenuineIsSound ==
    ASSUME NEW claim
    PROVE  Genuine(claim) <=> ~Misshapen(claim) /\ ~Unfounded(claim)
BY CitedIsFound DEF Genuine, Misshapen, Unfounded

LEMMA FaultlessIsGenuine ==
    ASSUME NEW document, Issues(document) = {}
    PROVE  \A o \in Observations : Genuine(document[o])
BY IssuesArePointwise, GenuineIsSound DEF Misshaped, Ungrounded

\* A genuine claim is never told to be repaired.
LEMMA GenuineIsLeft ==
    ASSUME NEW document, NEW o \in Observations, Genuine(document[o])
    PROVE  o \notin RepairRoots(Issues(document))
BY IssuesArePointwise, GenuineIsSound DEF Misshaped, Ungrounded

\* A repair that does what it is told, claim by claim.
LEMMA HeedsIsPointwise ==
    ASSUME NEW document, roots \subseteq Observations, Heeds(document)
    PROVE  \A o \in roots : /\ document[o] # None
                            /\ ~Misshapen(document[o])
                            /\ sources => ~Unfounded(document[o])
<1> SUFFICES ASSUME NEW o \in roots
             PROVE  /\ document[o] # None
                    /\ ~Misshapen(document[o])
                    /\ sources => ~Unfounded(document[o])
  OBVIOUS
<1> DEFINE one == [p \in Observations |-> document[o]]
<1>1. document[o] # None /\ ZodIssues(one) = {} /\ (sources => ProvenanceIssues(one) = {})
  BY DEF Heeds
<1>2. Misshaped(one) = {} /\ (sources => Ungrounded(one) = {})
  BY <1>1, ShapeIsPointwise, ProvenanceIsPointwise
<1>3. o \in Observations /\ one[o] = document[o]
  OBVIOUS
<1> QED BY <1>1, <1>2, <1>3 DEF Misshaped, Ungrounded

--------------------------------------------------------------------------
(* The inductive invariant.                                                *)

Responses == [Observations -> ClaimSet \cup {None}]

ResearchTyped ==
    /\ turn \in CallSteps
    /\ outcome \in Outcomes \cup {None}
    /\ fetches \in 0..2
    /\ attempts \in 0..MaxAttempts
    /\ prior \in Documents \cup {None}
    /\ roots \subseteq Observations
    /\ usage \subseteq [attempt : 1..MaxAttempts, kind : Kinds]
    /\ answered \subseteq [attempt : 1..MaxAttempts, kind : Kinds]
    /\ sources \in BOOLEAN
    /\ aborted \in BOOLEAN
    /\ expired \in BOOLEAN
    /\ heeded \in BOOLEAN
    /\ late \in {0, 1}

\* Before the end there is no outcome; the homepage is tried twice at most, and a call
\* that is under way is counted.
StepsIInv ==
    /\ turn # "over" => outcome = None
    /\ turn = "fetch" => fetches \in {0, 1}
    /\ turn \in {"calling", "metering"} => attempts # 0

\* What is to be repaired is what is wrong with the last candidate.
PlanIInv ==
    turn # "over" =>
        /\ prior = None <=> roots = {}
        /\ prior # None => /\ Issues(prior) # {}
                           /\ roots = RepairRoots(Issues(prior))
                           /\ sources = NeedsSourceContext(Issues(prior))

\* The answer in hand, of which the first document is the first one there is.
ReplyIInv ==
    turn = "metering" =>
        \/ reply = [kind |-> "refusal"]
        \/ \E v \in Responses :
              /\ reply = [kind |-> "json", value |-> v]
              /\ prior = None =>
                   /\ v \in Documents
                   /\ good # None
                   /\ \A o \in Observations : good[o] # None => good[o] = v[o] /\ Genuine(v[o])
              /\ heeded => Heeds(v)

\* A claim that was right is where it was.
GoodIInv ==
    /\ prior = None /\ turn \notin {"metering", "over"} => good = None
    /\ prior # None =>
         /\ good # None
         /\ \A o \in Observations : good[o] # None => prior[o] = good[o] /\ Genuine(good[o])

\* The rounds a model that heeds has behind it: the second left no fault of shape.
Rounds == IF turn \in {"calling", "metering"} THEN attempts - 1 ELSE attempts

RoundsIInv ==
    heeded /\ turn # "over" =>
        /\ Rounds <= 2
        /\ prior = None <=> Rounds = 0
        /\ Rounds = 2 => Misshaped(prior) = {}

\* Every answer but the one in hand is metered.
MeterIInv ==
    /\ turn = "metering" => answered = usage \cup {[attempt |-> attempts, kind |-> RequestKind]}
    /\ turn \notin {"metering", "over"} => answered = usage
    /\ UsageIsComplete

\* After a late answer no call is begun.
LateIInv == late = 1 => turn # "calling" /\ (aborted \/ expired)

ResearchIInv ==
    /\ ResearchTyped
    /\ StepsIInv
    /\ PlanIInv
    /\ ReplyIInv
    /\ GoodIInv
    /\ RoundsIInv
    /\ MeterIInv
    /\ LateIInv
    /\ ReturnedIsGenuine
    /\ ThreeRoundsSuffice

--------------------------------------------------------------------------
(* Each action keeps it.                                                   *)

\* The homepage comes before every answer.
LEMMA FetchKeeps ==
    ASSUME ResearchIInv, FetchFails \/ FetchFindsNothing \/ FetchFinds
    PROVE  ResearchIInv'
<1> USE DEF ResearchIInv, FetchFails, FetchFindsNothing, FetchFinds, End, request, budget, history
<1>1. ResearchTyped'
  BY DEF ResearchTyped, StepsIInv, CallSteps, Outcomes
<1>2. StepsIInv'
  BY DEF StepsIInv
<1>3. PlanIInv'
  BY DEF PlanIInv
<1>4. ReplyIInv'
  BY DEF ReplyIInv
<1>5. GoodIInv'
  BY DEF GoodIInv
<1>6. RoundsIInv'
  BY DEF RoundsIInv, Rounds
<1>7. MeterIInv'
  BY DEF MeterIInv, UsageIsComplete
<1>8. LateIInv'
  BY DEF LateIInv
<1>9. ReturnedIsGenuine'
  BY DEF ReturnedIsGenuine
<1>10. ThreeRoundsSuffice'
  BY DEF ThreeRoundsSuffice
<1> QED BY <1>1, <1>2, <1>3, <1>4, <1>5, <1>6, <1>7, <1>8, <1>9, <1>10

\* An abort or a deadline only ends what follows.
LEMMA LeaveKeeps ==
    ASSUME ResearchIInv, Abort \/ Expire
    PROVE  ResearchIInv'
<1> USE DEF ResearchIInv, Abort, Expire, End, request, budget, history
<1>1. ResearchTyped'
  BY DEF ResearchTyped, StepsIInv
<1>2. StepsIInv'
  BY DEF StepsIInv
<1>3. PlanIInv'
  BY DEF PlanIInv
<1>4. ReplyIInv'
  <2>1. /\ turn' = turn /\ reply' = reply /\ prior' = prior /\ good' = good
        /\ heeded' = heeded
    OBVIOUS
  <2>2. \A v : Heeds(v)' <=> Heeds(v)
    BY DEF Heeds
  <2> HIDE DEF Abort, Expire
  <2> QED BY <2>1, <2>2 DEF ReplyIInv
<1>5. GoodIInv'
  BY DEF GoodIInv
<1>6. RoundsIInv'
  BY DEF RoundsIInv, Rounds
<1>7. MeterIInv'
  BY DEF MeterIInv, UsageIsComplete, RequestKind
<1>8. LateIInv'
  BY DEF LateIInv
<1>9. ReturnedIsGenuine'
  BY DEF ReturnedIsGenuine
<1>10. ThreeRoundsSuffice'
  BY DEF ThreeRoundsSuffice
<1> QED BY <1>1, <1>2, <1>3, <1>4, <1>5, <1>6, <1>7, <1>8, <1>9, <1>10

\* A call is begun only while nobody has left.
LEMMA BeginCallKeeps ==
    ASSUME ResearchIInv, BeginCall
    PROVE  ResearchIInv'
<1> USE DEF ResearchIInv, BeginCall, Throw, End, request, budget, history
<1>1. ResearchTyped'
  BY ResearchConstants DEF ResearchTyped, CallSteps, Outcomes
<1>2. StepsIInv'
  BY DEF StepsIInv, ResearchTyped
<1>3. PlanIInv'
  BY DEF PlanIInv
<1>4. ReplyIInv'
  BY DEF ReplyIInv
<1>5. GoodIInv'
  BY DEF GoodIInv
<1>6. RoundsIInv'
  BY DEF RoundsIInv, Rounds, ResearchTyped
<1>7. MeterIInv'
  BY DEF MeterIInv, UsageIsComplete
<1>8. LateIInv'
  BY DEF LateIInv
<1>9. ReturnedIsGenuine'
  BY DEF ReturnedIsGenuine
<1>10. ThreeRoundsSuffice'
  BY DEF ThreeRoundsSuffice
<1> QED BY <1>1, <1>2, <1>3, <1>4, <1>5, <1>6, <1>7, <1>8, <1>9, <1>10

\* Neither end of the sleep touches the candidate.
LEMMA SleepKeeps ==
    ASSUME ResearchIInv, Wake \/ SleepAborted
    PROVE  ResearchIInv'
<1> USE DEF ResearchIInv, Wake, SleepAborted, End, request, budget, history
<1>1. ResearchTyped'
  BY DEF ResearchTyped, CallSteps, Outcomes
<1>2. StepsIInv'
  BY DEF StepsIInv
<1>3. PlanIInv'
  BY DEF PlanIInv
<1>4. ReplyIInv'
  BY DEF ReplyIInv
<1>5. GoodIInv'
  BY DEF GoodIInv
<1>6. RoundsIInv'
  BY DEF RoundsIInv, Rounds
<1>7. MeterIInv'
  BY DEF MeterIInv, UsageIsComplete
<1>8. LateIInv'
  BY DEF LateIInv
<1>9. ReturnedIsGenuine'
  BY DEF ReturnedIsGenuine
<1>10. ThreeRoundsSuffice'
  BY DEF ThreeRoundsSuffice
<1> QED BY <1>1, <1>2, <1>3, <1>4, <1>5, <1>6, <1>7, <1>8, <1>9, <1>10

\* A call that fails leaves the candidate alone.
LEMMA CallFailsKeeps ==
    ASSUME NEW retryable \in BOOLEAN, ResearchIInv, CallFails(retryable)
    PROVE  ResearchIInv'
<1> USE DEF ResearchIInv, CallFails, End, request, budget, history
<1>1. ResearchTyped'
  BY DEF ResearchTyped, CallSteps, Outcomes
<1>2. StepsIInv'
  BY DEF StepsIInv
<1>3. PlanIInv'
  BY DEF PlanIInv
<1>4. ReplyIInv'
  BY DEF ReplyIInv
<1>5. GoodIInv'
  BY DEF GoodIInv
<1>6. RoundsIInv'
  BY DEF RoundsIInv
<1>7. MeterIInv'
  BY DEF MeterIInv, UsageIsComplete
<1>8. LateIInv'
  BY DEF LateIInv
<1>9. ReturnedIsGenuine'
  BY DEF ReturnedIsGenuine
<1>10. ThreeRoundsSuffice'
  BY DEF ThreeRoundsSuffice
<1> QED BY <1>1, <1>2, <1>3, <1>4, <1>5, <1>6, <1>7, <1>8, <1>9, <1>10

\* An answer is in hand until it is metered.
LEMMA RespondKeeps ==
    ASSUME ResearchIInv, NEW response, Respond(response),
           heeded' \in BOOLEAN, heeded' => heeded
    PROVE  /\ ResearchTyped' /\ StepsIInv' /\ PlanIInv' /\ RoundsIInv' /\ MeterIInv'
           /\ LateIInv' /\ ReturnedIsGenuine' /\ ThreeRoundsSuffice'
<1> USE DEF ResearchIInv, Respond, request, budget
<1> DEFINE entry == [attempt |-> attempts,
                     kind |-> IF prior = None THEN "initial" ELSE "repair"]
<1>1. attempts \in 1..MaxAttempts /\ attempts \in Nat
  BY ResearchConstants DEF ResearchTyped, StepsIInv
<1>2. late' \in {0, 1}
  BY DEF ResearchTyped, LateIInv
<1>3. ResearchTyped'
  <2>1. entry \in [attempt : 1..MaxAttempts, kind : Kinds]
    BY <1>1 DEF Kinds
  <2>2. answered' \subseteq [attempt : 1..MaxAttempts, kind : Kinds]
    BY <2>1 DEF ResearchTyped
  <2> QED BY <1>2, <2>2 DEF ResearchTyped, CallSteps
<1>4. StepsIInv'
  BY <1>1 DEF StepsIInv
<1>5. PlanIInv'
  BY DEF PlanIInv
<1>6. RoundsIInv'
  BY DEF RoundsIInv, Rounds
<1>7. MeterIInv'
  <2>1. entry = [attempt |-> attempts', kind |-> RequestKind']
    BY DEF PlanIInv, RequestKind
  <2>2. answered = usage /\ answered' = answered \cup {entry} /\ usage' = usage
    BY DEF MeterIInv
  <2>3. answered' = usage' \cup {[attempt |-> attempts', kind |-> RequestKind']}
    BY <2>1, <2>2
  <2>4. UsageIsComplete'
    BY <2>3 DEF UsageIsComplete
  <2> QED BY <2>3, <2>4 DEF MeterIInv
<1>8. LateIInv'
  BY DEF LateIInv, ResearchTyped
<1>9. ReturnedIsGenuine' /\ ThreeRoundsSuffice'
  BY ResearchConstants DEF ReturnedIsGenuine, ThreeRoundsSuffice, StepsIInv, Outcomes
<1> QED BY <1>3, <1>4, <1>5, <1>6, <1>7, <1>8, <1>9

LEMMA AnswerKeeps ==
    ASSUME ResearchIInv, NEW document \in Responses, ModelAnswers(document)
    PROVE  ResearchIInv'
<1> DEFINE response == [kind |-> "json", value |-> document]
           genuine == [o \in Observations |->
                         IF Genuine(document[o]) THEN document[o] ELSE None]
<1>1. /\ Respond(response)
      /\ prior = None => \A o \in Observations : document[o] # None
      /\ good' = IF good # None THEN good ELSE genuine
      /\ heeded' = (heeded /\ Heeds(document))
  BY DEF ModelAnswers
<1>2. heeded' \in BOOLEAN /\ (heeded' => heeded) /\ (heeded' => Heeds(document))
  BY <1>1 DEF ResearchIInv, ResearchTyped
<1>3. /\ turn = "calling" /\ turn' = "metering" /\ reply' = response
      /\ prior' = prior /\ roots' = roots /\ sources' = sources
  BY <1>1 DEF Respond, request
<1>4. prior = None =>
        /\ document \in Documents
        /\ good' # None
        /\ \A o \in Observations :
             good'[o] # None => good'[o] = document[o] /\ Genuine(document[o])
  <2>1. SUFFICES ASSUME prior = None
                 PROVE  /\ document \in Documents
                        /\ good' # None
                        /\ \A o \in Observations :
                             good'[o] # None => good'[o] = document[o] /\ Genuine(document[o])
    OBVIOUS
  <2>2. document \in Documents
    BY <1>1, <2>1 DEF Responses, Documents
  <2>3. good' = genuine
    BY <1>1, <1>3, <2>1 DEF ResearchIInv, GoodIInv
  <2>4. genuine \in Responses
    BY <2>2 DEF Documents, Responses
  <2>5. good' # None
    BY <2>3, <2>4, ResearchConstants DEF Responses
  <2> QED BY <2>2, <2>3, <2>5
<1>5. Heeds(document)' <=> Heeds(document)
  BY <1>3 DEF Heeds
<1>6. ReplyIInv'
  BY <1>2, <1>3, <1>4, <1>5 DEF ReplyIInv
<1>7. GoodIInv'
  <2>1. CASE prior = None
    BY <1>3, <2>1 DEF GoodIInv
  <2>2. CASE prior # None
    BY <1>1, <1>3, <2>2 DEF ResearchIInv, GoodIInv
  <2> QED BY <2>1, <2>2
<1> QED BY <1>1, <1>2, <1>6, <1>7, RespondKeeps DEF ResearchIInv

\* A refusal has no claims.
LEMMA RefusalKeeps ==
    ASSUME ResearchIInv, ModelRefuses
    PROVE  ResearchIInv'
<1>1. Respond([kind |-> "refusal"]) /\ good' = good /\ heeded' = heeded
  BY DEF ModelRefuses
<1>2. turn = "calling" /\ turn' = "metering" /\ reply' = [kind |-> "refusal"] /\ prior' = prior
  BY <1>1 DEF Respond, request
<1>3. ReplyIInv'
  BY <1>2 DEF ReplyIInv
<1>4. GoodIInv'
  BY <1>1, <1>2 DEF ResearchIInv, GoodIInv
<1>5. heeded' \in BOOLEAN
  BY <1>1 DEF ResearchIInv, ResearchTyped
<1> QED BY <1>1, <1>3, <1>4, <1>5, RespondKeeps DEF ResearchIInv

\* A failed write of the usage ends the call.
LEMMA UsageFailsKeeps ==
    ASSUME ResearchIInv, UsageFails
    PROVE  ResearchIInv'
<1> USE DEF ResearchIInv, UsageFails, End, request, budget, history
<1>1. ResearchTyped'
  BY DEF ResearchTyped, CallSteps, Outcomes
<1>2. StepsIInv' /\ PlanIInv' /\ ReplyIInv' /\ RoundsIInv'
  BY DEF StepsIInv, PlanIInv, ReplyIInv, RoundsIInv
<1>3. GoodIInv'
  BY DEF GoodIInv
<1>4. MeterIInv'
  BY DEF MeterIInv, UsageIsComplete
<1>5. LateIInv' /\ ReturnedIsGenuine' /\ ThreeRoundsSuffice'
  BY DEF LateIInv, ReturnedIsGenuine, ThreeRoundsSuffice
<1> QED BY <1>1, <1>2, <1>3, <1>4, <1>5

\* The usage that is recorded is that of the answer in hand.
LEMMA MeteredKeeps ==
    ASSUME ResearchIInv, RecordUsage
    PROVE  /\ usage' = answered
           /\ turn' # "metering"
           /\ MeterIInv'
<1>1. turn' # "metering"
  BY DEF RecordUsage, ValidateCandidate, PlanRepair, End
<1>2. usage' = answered /\ answered' = answered
  BY DEF ResearchIInv, RecordUsage, MeterIInv, history
<1> QED BY <1>1, <1>2 DEF MeterIInv, UsageIsComplete

LEMMA RefusedKeeps ==
    ASSUME ResearchIInv, RecordUsage, reply.kind = "refusal"
    PROVE  ResearchIInv'
<1> USE DEF ResearchIInv
<1>1. /\ turn' = "over" /\ outcome' = "refused"
      /\ UNCHANGED <<fetches, request, budget, history>>
  BY DEF RecordUsage, End
<1> USE <1>1 DEF request, budget, history
<1>2. usage' = answered /\ MeterIInv'
  BY MeteredKeeps
<1>3. ResearchTyped'
  BY <1>2 DEF ResearchTyped, CallSteps, Outcomes
<1>4. StepsIInv' /\ PlanIInv' /\ ReplyIInv' /\ RoundsIInv'
  BY DEF StepsIInv, PlanIInv, ReplyIInv, RoundsIInv
<1>5. GoodIInv'
  BY DEF GoodIInv
<1>6. LateIInv' /\ ReturnedIsGenuine' /\ ThreeRoundsSuffice'
  BY DEF LateIInv, ReturnedIsGenuine, ThreeRoundsSuffice
<1> QED BY <1>2, <1>3, <1>4, <1>5, <1>6

\* What a candidate is, claim by claim: the answer at the roots that it filled, what was
\* there before elsewhere.
Candidate == IF roots # {} THEN ApplyRepair(prior, reply.value, roots) ELSE reply.value

LEMMA CandidateIs ==
    ASSUME ResearchIInv, turn = "metering", reply.kind = "json"
    PROVE  /\ Candidate \in Documents
           /\ prior = None => Candidate = reply.value
           /\ prior # None =>
                \A o \in Observations :
                    Candidate[o] = IF o \in roots /\ reply.value[o] # None
                                   THEN reply.value[o] ELSE prior[o]
           /\ heeded => Heeds(reply.value)
<1>1. PICK v \in Responses :
         /\ reply = [kind |-> "json", value |-> v]
         /\ prior = None => v \in Documents
         /\ heeded => Heeds(v)
  <2>1. reply # [kind |-> "refusal"]
    <3>1. [kind |-> "refusal"].kind # "json"
      OBVIOUS
    <3> QED BY <3>1
  <2> QED BY <2>1 DEF ResearchIInv, ReplyIInv
<1>2. reply.value = v
  BY <1>1
<1>3. prior = None <=> roots = {}
  BY DEF ResearchIInv, PlanIInv
<1>4. CASE prior = None
  BY <1>1, <1>2, <1>3, <1>4 DEF Candidate
<1>5. CASE prior # None
  <2>1. Candidate = ApplyRepair(prior, v, roots)
    BY <1>2, <1>3, <1>5 DEF Candidate
  <2>2. prior \in Documents
    BY <1>5 DEF ResearchIInv, ResearchTyped
  <2>3. Candidate \in Documents
    BY <2>1, <2>2 DEF ApplyRepair, Documents, Responses
  <2> QED BY <1>1, <1>2, <1>5, <2>1, <2>3 DEF ApplyRepair
<1> QED BY <1>4, <1>5

\* The right claims of the first document are in every candidate.
LEMMA CandidateKeepsGood ==
    ASSUME ResearchIInv, turn = "metering", reply.kind = "json"
    PROVE  /\ good # None
           /\ \A o \in Observations :
                good[o] # None => Candidate[o] = good[o] /\ Genuine(good[o])
<1>1. CASE prior = None
  <2>1. PICK v \in Responses :
           /\ reply = [kind |-> "json", value |-> v]
           /\ good # None
           /\ \A o \in Observations : good[o] # None => good[o] = v[o] /\ Genuine(v[o])
    <3>1. reply # [kind |-> "refusal"]
      <4>1. [kind |-> "refusal"].kind # "json"
        OBVIOUS
      <4> QED BY <4>1
    <3> QED BY <1>1, <3>1 DEF ResearchIInv, ReplyIInv
  <2>2. Candidate = v
    BY <1>1, <2>1, CandidateIs
  <2> QED BY <2>1, <2>2
<1>2. CASE prior # None
  <2>1. /\ good # None
        /\ \A o \in Observations : good[o] # None => prior[o] = good[o] /\ Genuine(good[o])
    BY <1>2 DEF ResearchIInv, GoodIInv
  <2>2. \A o \in Observations : Genuine(prior[o]) => o \notin RepairRoots(Issues(prior))
    BY GenuineIsLeft
  <2>3. roots = RepairRoots(Issues(prior))
    BY <1>2 DEF ResearchIInv, PlanIInv
  <2> QED BY <1>2, <2>1, <2>2, <2>3, CandidateIs
<1> QED BY <1>1, <1>2

\* A model that heeds mends the shape in its second answer and the evidence in its third.
LEMMA HeededMends ==
    ASSUME ResearchIInv, turn = "metering", reply.kind = "json", heeded,
           Issues(Candidate) # {}
    PROVE  attempts \in {1, 2} /\ (attempts = 2 => Misshaped(Candidate) = {})
<1>1. attempts \in Nat /\ attempts # 0 /\ Rounds = attempts - 1
  BY ResearchConstants DEF ResearchIInv, ResearchTyped, StepsIInv, Rounds
<1>2. Rounds <= 2 /\ (prior = None <=> Rounds = 0) /\ (Rounds = 2 => Misshaped(prior) = {})
  BY DEF ResearchIInv, RoundsIInv
<1>3. CASE prior = None
  BY <1>1, <1>2, <1>3
<1>4. CASE prior # None
  <2>1. /\ roots = IF Misshaped(prior) # {} THEN Misshaped(prior) ELSE Ungrounded(prior)
        /\ Issues(prior) # {}
        /\ sources = NeedsSourceContext(Issues(prior))
    BY <1>4, IssuesArePointwise DEF ResearchIInv, PlanIInv
  <2>2. \A o \in roots : /\ reply.value[o] # None
                         /\ ~Misshapen(reply.value[o])
                         /\ sources => ~Unfounded(reply.value[o])
    <3>1. roots \subseteq Observations /\ Heeds(reply.value)
      BY CandidateIs DEF ResearchIInv, ResearchTyped
    <3> QED BY <3>1, HeedsIsPointwise
  <2>3. \A o \in Observations :
          Candidate[o] = IF o \in roots THEN reply.value[o] ELSE prior[o]
    BY <1>4, <2>2, CandidateIs
  <2>4. Misshaped(Candidate) = {}
    BY <2>1, <2>2, <2>3 DEF Misshaped
  <2>5. Rounds # 2
    <3> SUFFICES ASSUME Rounds = 2 PROVE FALSE
      OBVIOUS
    <3>1. Misshaped(prior) = {} /\ Ungrounded(prior) # {} /\ roots = Ungrounded(prior)
      BY <1>2, <2>1, IssuesArePointwise
    <3>2. sources
      BY <2>1, <3>1, IssuesArePointwise
    <3>3. Ungrounded(Candidate) = {}
      BY <2>2, <2>3, <3>1, <3>2 DEF Ungrounded
    <3> QED BY <2>4, <3>3, IssuesArePointwise
  <2> QED BY <1>1, <1>2, <2>4, <2>5
<1> QED BY <1>3, <1>4

\* A candidate is returned, given up, or sent back with its faults.
LEMMA ValidatedKeeps ==
    ASSUME ResearchIInv, RecordUsage, reply.kind = "json"
    PROVE  ResearchIInv'
<1> USE DEF ResearchIInv
<1>1. /\ turn = "metering"
      /\ prior' = Candidate
      /\ UNCHANGED <<fetches, attempts, aborted, expired, answered, good, heeded, late>>
  BY DEF RecordUsage, ValidateCandidate, PlanRepair, Candidate, budget, history
<1>2. \/ /\ Issues(Candidate) = {}
         /\ turn' = "over" /\ outcome' = "research"
         /\ UNCHANGED <<roots, sources>>
      \/ /\ Issues(Candidate) # {} /\ attempts >= MaxAttempts
         /\ turn' = "over" /\ outcome' = "invalid"
         /\ UNCHANGED <<roots, sources>>
      \/ /\ Issues(Candidate) # {} /\ attempts < MaxAttempts
         /\ roots' = RepairRoots(Issues(Candidate))
         /\ sources' = NeedsSourceContext(Issues(Candidate))
         /\ turn' = "check" /\ UNCHANGED outcome
  BY DEF RecordUsage, ValidateCandidate, PlanRepair, Candidate, End
<1>3. usage' = answered /\ MeterIInv'
  BY MeteredKeeps
<1>4. Candidate \in Documents /\ prior' # None
  BY <1>1, CandidateIs, ResearchConstants DEF Documents
<1>5. attempts \in 1..MaxAttempts
  BY <1>1, ResearchConstants DEF ResearchTyped, StepsIInv
<1>6. /\ RepairRoots(Issues(Candidate)) \subseteq Observations
      /\ Issues(Candidate) # {} => RepairRoots(Issues(Candidate)) # {}
  BY IssuesArePointwise DEF Misshaped, Ungrounded
<1>7. sources' \in BOOLEAN
  BY <1>2 DEF ResearchTyped, NeedsSourceContext
<1>8. ResearchTyped'
  BY <1>1, <1>2, <1>3, <1>4, <1>6, <1>7 DEF ResearchTyped, CallSteps, Outcomes
<1>9. StepsIInv'
  BY <1>1, <1>2 DEF StepsIInv
<1>10. PlanIInv'
  <2>1. Issues(prior)' = Issues(Candidate)
    BY <1>1 DEF Issues, ZodIssues, ProvenanceIssues
  <2> QED BY <1>1, <1>2, <1>4, <1>6, <2>1 DEF PlanIInv
<1>11. ReplyIInv'
  BY <1>2 DEF ReplyIInv
<1>12. GoodIInv'
  BY <1>1, <1>4, CandidateKeepsGood DEF GoodIInv
<1>13. RoundsIInv' /\ ThreeRoundsSuffice'
  <2>1. heeded /\ Issues(Candidate) # {} =>
          attempts \in {1, 2} /\ (attempts = 2 => Misshaped(Candidate) = {})
    BY <1>1, HeededMends
  <2>2. turn' # "over" => Rounds' = attempts
    BY <1>1, <1>2 DEF Rounds
  <2>3. Misshaped(prior)' = Misshaped(Candidate)
    BY <1>1 DEF Misshaped
  <2>4. RoundsIInv'
    BY <1>1, <1>2, <1>4, <1>5, <2>1, <2>2, <2>3 DEF RoundsIInv
  <2>5. ThreeRoundsSuffice'
    BY <1>1, <1>2, <1>5, <2>1, ResearchConstants DEF ThreeRoundsSuffice, StepsIInv, Outcomes
  <2> QED BY <2>4, <2>5
<1>14. LateIInv'
  BY <1>1, <1>2 DEF LateIInv
<1>15. ReturnedIsGenuine'
  <2>1. outcome' = "research" => Issues(Candidate) = {}
    BY <1>1, <1>2, ResearchConstants DEF StepsIInv, Outcomes
  <2> QED BY <1>1, <2>1, FaultlessIsGenuine DEF ReturnedIsGenuine
<1> QED BY <1>3, <1>8, <1>9, <1>10, <1>11, <1>12, <1>13, <1>14, <1>15

LEMMA ResearchInitHolds == ResearchInit => ResearchIInv
<1> SUFFICES ASSUME ResearchInit PROVE ResearchIInv
  OBVIOUS
<1> USE DEF ResearchInit
<1>1. ResearchTyped
  <2>1. turn \in CallSteps /\ outcome \in Outcomes \cup {None} /\ prior \in Documents \cup {None}
    BY DEF CallSteps
  <2>2. /\ fetches \in 0..2 /\ attempts \in 0..MaxAttempts /\ late \in {0, 1}
        /\ roots \subseteq Observations
    BY ResearchConstants
  <2>3. /\ usage \subseteq [attempt : 1..MaxAttempts, kind : Kinds]
        /\ answered \subseteq [attempt : 1..MaxAttempts, kind : Kinds]
    OBVIOUS
  <2>4. /\ sources \in BOOLEAN /\ aborted \in BOOLEAN
        /\ expired \in BOOLEAN /\ heeded \in BOOLEAN
    OBVIOUS
  <2> QED BY <2>1, <2>2, <2>3, <2>4 DEF ResearchTyped
<1>2. StepsIInv /\ PlanIInv /\ ReplyIInv /\ GoodIInv
  BY DEF StepsIInv, PlanIInv, ReplyIInv, GoodIInv
<1>3. RoundsIInv /\ MeterIInv /\ LateIInv
  BY DEF RoundsIInv, Rounds, MeterIInv, UsageIsComplete, LateIInv
<1>4. ReturnedIsGenuine /\ ThreeRoundsSuffice
  BY ResearchConstants DEF ReturnedIsGenuine, ThreeRoundsSuffice, Outcomes
<1> QED BY <1>1, <1>2, <1>3, <1>4 DEF ResearchIInv

LEMMA ResearchStutterKeeps ==
    ASSUME ResearchIInv, UNCHANGED researchVars
    PROVE  ResearchIInv'
<1> USE DEF ResearchIInv, researchVars
<1>1. ResearchTyped' /\ StepsIInv'
  BY DEF ResearchTyped, StepsIInv
<1>2. PlanIInv' /\ GoodIInv'
  BY DEF PlanIInv, GoodIInv
<1>3. ReplyIInv'
  <2>1. \A v : Heeds(v)' <=> Heeds(v)
    BY DEF Heeds
  <2> QED BY <2>1 DEF ReplyIInv
<1>4. RoundsIInv' /\ MeterIInv' /\ LateIInv'
  BY DEF RoundsIInv, Rounds, MeterIInv, UsageIsComplete, RequestKind, LateIInv
<1>5. ReturnedIsGenuine' /\ ThreeRoundsSuffice'
  BY DEF ReturnedIsGenuine, ThreeRoundsSuffice
<1> QED BY <1>1, <1>2, <1>3, <1>4, <1>5

\* The invariant of a research: what is planned, held and metered fits what was answered.
THEOREM ResearchInvariance == ResearchSpec => []ResearchIInv
<1>1. ResearchInit => ResearchIInv
  BY ResearchInitHolds
<1>2. ResearchIInv /\ [ResearchNext]_researchVars => ResearchIInv'
  <2> SUFFICES ASSUME ResearchIInv, [ResearchNext]_researchVars PROVE ResearchIInv'
    OBVIOUS
  <2>1. CASE UNCHANGED researchVars
    BY <2>1, ResearchStutterKeeps
  <2>2. CASE FetchFails \/ FetchFindsNothing \/ FetchFinds
    BY <2>2, FetchKeeps
  <2>3. CASE Abort \/ Expire
    BY <2>3, LeaveKeeps
  <2>4. CASE BeginCall
    BY <2>4, BeginCallKeeps
  <2>5. CASE ModelRefuses
    BY <2>5, RefusalKeeps
  <2>6. CASE Wake \/ SleepAborted
    BY <2>6, SleepKeeps
  <2>7. CASE \E document \in [Observations -> ClaimSet \cup {None}] : ModelAnswers(document)
    BY <2>7, AnswerKeeps DEF Responses
  <2>8. CASE \E retryable \in BOOLEAN : CallFails(retryable)
    BY <2>8, CallFailsKeeps
  <2>9. CASE RecordUsage
    <3>1. reply.kind = "refusal" \/ reply.kind = "json"
      BY <2>9 DEF RecordUsage
    <3> QED BY <2>9, <3>1, RefusedKeeps, ValidatedKeeps
  <2>10. CASE UsageFails
    BY <2>10, UsageFailsKeeps
  <2> QED
    BY <2>1, <2>2, <2>3, <2>4, <2>5, <2>6, <2>7, <2>8, <2>9, <2>10 DEF ResearchNext
<1> QED BY <1>1, <1>2, PTL DEF ResearchSpec

\* What a research returns is genuine, claims that were right survive every repair, three
\* rounds are enough for a model that heeds, every answer is metered once, and after an
\* abort or the deadline at most one answer is paid for.
THEOREM ResearchHoldsAlways == ResearchSpec => []ResearchHolds
<1>1. ResearchIInv => ResearchHolds
  <2> SUFFICES ASSUME ResearchIInv PROVE ResearchHolds
    OBVIOUS
  <2>1. ResearchTypeOK
    BY DEF ResearchIInv, ResearchTyped, ResearchTypeOK
  <2>2. GoodClaimsSurvive
    BY DEF ResearchIInv, GoodIInv, GoodClaimsSurvive
  <2>3. UsageIsComplete
    BY DEF ResearchIInv, MeterIInv
  <2>4. OneLateAnswer
    BY DEF ResearchIInv, ResearchTyped, OneLateAnswer
  <2> QED BY <2>1, <2>2, <2>3, <2>4 DEF ResearchIInv, ResearchHolds
<1> QED BY <1>1, ResearchInvariance, PTL

---------------------------------------------------------------------------
(***************************************************************************)
(* Scoring keeps what it promises (ScoringHolds), for every prospect that  *)
(* may be entered and every history of calls, research runs and days.      *)
(***************************************************************************)

--------------------------------------------------------------------------
(* Points.                                                                 *)

LEMMA RoundIsNat ==
    ASSUME NEW n \in Nat, NEW d \in Nat \ {0}
    PROVE  Round(n, d) \in Nat
BY DEF Round

LEMMA ProductIsNat ==
    ASSUME NEW a \in Nat, NEW b \in Nat
    PROVE  a * b \in Nat
OBVIOUS

LEMMA ProductIsMonotone ==
    ASSUME NEW a \in Nat, NEW b \in Nat, NEW c \in Nat, b <= c
    PROVE  a * b <= a * c
OBVIOUS

\* Rounding keeps an order.
LEMMA RoundIsMonotone ==
    ASSUME NEW m \in Nat, NEW n \in Nat, NEW d \in Nat \ {0}, m <= n
    PROVE  Round(m, d) <= Round(n, d)
BY DEF Round

\* Half of it is no more than all of it.
LEMMA RoundOfHalf ==
    ASSUME NEW n \in Nat, NEW d \in Nat \ {0}
    PROVE  Round(n, 2 * d) <= Round(n, d)
BY DEF Round

\* A factor earns between nothing and its weight, and no more inferred than observed.
LEMMA FactorScoreFacts ==
    ASSUME NEW factor \in DOMAIN FACTOR_WEIGHTS, NEW n \in Nat, NEW d \in Nat \ {0},
           NEW basis \in Bases
    PROVE  LET f == FactorScore(factor, n, d, basis)
           IN  /\ f.factor = factor /\ f.basis = basis
               /\ f.points \in 0..FACTOR_WEIGHTS[factor]
               /\ basis = "UNKNOWN" \/ n = 0 => f.points = 0
               /\ FactorScore(factor, n, d, "INFERRED").points
                    <= FactorScore(factor, n, d, "OBSERVED").points
<1> DEFINE w == FACTOR_WEIGHTS[factor]
           earned == AtMost(d, n) * w
<1>1. w \in {5, 10, 15, 20}
  BY DEF FACTOR_WEIGHTS
<1>2. AtMost(d, n) \in 0..d
  BY DEF AtMost
<1>3. earned \in Nat /\ earned <= d * w
  BY <1>1, <1>2
<1>4. Round(d * w, d) = w
  BY <1>1 DEF Round
<1>5. Round(earned, d) \in 0..w
  BY <1>1, <1>3, <1>4, RoundIsNat, RoundIsMonotone
<1>6. Round(earned, 2 * d) \in 0..Round(earned, d)
  BY <1>3, RoundIsNat, RoundOfHalf
<1>7. n = 0 => Round(earned, d) = 0 /\ Round(earned, 2 * d) = 0
  <2> SUFFICES ASSUME n = 0 PROVE Round(earned, d) = 0 /\ Round(earned, 2 * d) = 0
    OBVIOUS
  <2>1. earned = 0
    BY <1>1 DEF AtMost
  <2> HIDE DEF earned
  <2> QED BY <2>1 DEF Round
<1> HIDE DEF earned
<1> QED
  BY <1>1, <1>5, <1>6, <1>7 DEF FactorScore, Bases, earned

--------------------------------------------------------------------------
(* What is scored.                                                         *)

\* The signals of an input, whether they come as a list or at places of a table.
Scorable(signs) ==
    /\ DOMAIN signs \subseteq Nat /\ IsFiniteSet(DOMAIN signs)
    /\ \A i \in DOMAIN signs :
          signs[i].confidence \in 0..100 /\ signs[i].observedOn \in Int
          /\ signs[i].superseded \in BOOLEAN

LEMMA LeastExists ==
    ASSUME NEW S \in SUBSET Nat, S # {}
    PROVE  \E x \in S : \A y \in S : x <= y
<1>1. PICK x \in S : \A y \in S : ~(<<y, x>> \in OpToRel(<, Nat))
  BY NatLessThanWellFounded, WFMin
<1>2. \A y \in S : ~(y < x)
  BY <1>1 DEF OpToRel
<1> QED BY <1>2

\* There is a first among the most confident.
LEMMA StrongestExists ==
    ASSUME NEW signs, Scorable(signs), NEW places \in SUBSET DOMAIN signs, places # {}
    PROVE  Strongest(signs, places) \in places
<1> DEFINE Doubt(i) == 100 - signs[i].confidence
           doubts == {Doubt(i) : i \in places}
<1>1. doubts \subseteq Nat /\ doubts # {}
  BY DEF Scorable
<1>2. PICK least \in doubts : \A x \in doubts : least <= x
  BY <1>1, LeastExists
<1> DEFINE candidates == {i \in places : Doubt(i) = least}
<1>3. candidates \subseteq Nat /\ candidates # {}
  BY <1>2 DEF Scorable
<1>4. PICK first \in candidates : \A x \in candidates : first <= x
  BY <1>3, LeastExists
<1>5. \A j \in places : \/ signs[j].confidence < signs[first].confidence
                        \/ signs[j].confidence = signs[first].confidence /\ first <= j
  <2> TAKE j \in places
  <2>1. Doubt(first) <= Doubt(j)
    BY <1>2, <1>4
  <2>2. Doubt(j) = Doubt(first) => first <= j
    BY <1>4
  <2> QED BY <1>4, <2>1, <2>2 DEF Scorable
<1> QED BY <1>4, <1>5 DEF Strongest

\* What can be scored at all; ProspectInputs with signals in any places.
Described(input) ==
    /\ input.icp \in [1..3 -> ClaimsOver(BOOLEAN)]
    /\ input.abilityToPay \in ClaimsOver({"strong", "moderate", "weak"})
    /\ input.urgency \in ClaimsOver({"immediate", "this-quarter", "someday"})
    /\ input.serviceFit \in ClaimsOver(0..100)
    /\ input.contact \in [channels : 0..3, unsubscribed : BOOLEAN]
    /\ Scorable(input.signals)

LEMMA EnteredIsDescribed ==
    ASSUME NEW input \in ProspectInputs
    PROVE  Described(input)
<1>1. PICK n \in Nat : DOMAIN input.signals = 1..n
  BY DEF ProspectInputs
<1>2. IsFiniteSet(DOMAIN input.signals)
  BY <1>1, FS_Interval
<1>3. \A i \in DOMAIN input.signals : input.signals[i] \in ScoredSignals
  BY DEF ProspectInputs
<1>4. Scorable(input.signals)
  BY <1>1, <1>2, <1>3 DEF Scorable, ScoredSignals
<1> QED BY <1>4 DEF Described, ProspectInputs

\* A factor that is what its name says.
Scored(f, factor) ==
    /\ f.factor = factor /\ f.basis \in Bases
    /\ f.points \in 0..FACTOR_WEIGHTS[factor]
    /\ f.basis = "UNKNOWN" => f.points = 0

LEMMA FactorScoreFits ==
    ASSUME NEW factor \in DOMAIN FACTOR_WEIGHTS, NEW n \in Nat, NEW d \in Nat \ {0},
           NEW basis \in Bases
    PROVE  Scored(FactorScore(factor, n, d, basis), factor)
BY FactorScoreFacts DEF Scored

LEMMA FactorNames ==
    /\ DOMAIN FACTOR_WEIGHTS = {"icpFit", "visibleProblem", "abilityToPay", "urgency",
                                "serviceFit", "evidenceQuality", "contactability"}
    /\ \A b \in {"OBSERVED", "INFERRED", "UNKNOWN"} : b \in Bases
BY DEF FACTOR_WEIGHTS, Bases

\* The attributes known, and those that match; how they are known.
LEMMA IcpFitFacts ==
    ASSUME NEW icp \in [1..3 -> ClaimsOver(BOOLEAN)]
    PROVE  LET known == {i \in DOMAIN icp : icp[i].basis # "UNKNOWN"}
               matched == {i \in known : icp[i].value = TRUE}
               basis == IF known = {} THEN "UNKNOWN" ELSE CombineBasis({icp[i].basis : i \in known})
           IN  /\ Cardinality(matched) \in Nat /\ basis \in Bases
               /\ IcpFit(icp) = FactorScore("icpFit", Cardinality(matched), 3, basis)
               /\ basis = "UNKNOWN" <=> known = {}
<1> DEFINE known == {i \in DOMAIN icp : icp[i].basis # "UNKNOWN"}
           matched == {i \in known : icp[i].value = TRUE}
<1>1. IsFiniteSet(1..3)
  <2> DEFINE n == 3
  <2>1. n \in Int
    OBVIOUS
  <2> HIDE DEF n
  <2>2. IsFiniteSet(1..n)
    BY <2>1, FS_Interval
  <2> QED BY <2>2 DEF n
<1>2. matched \subseteq 1..3
  OBVIOUS
<1>3. IsFiniteSet(matched) /\ Cardinality(matched) \in Nat
  BY <1>1, <1>2, FS_Subset, FS_CardinalityType
<1> HIDE DEF known, matched
<1>4. IcpFit(icp) = FactorScore("icpFit", Cardinality(matched), 3,
          IF known = {} THEN "UNKNOWN" ELSE CombineBasis({icp[i].basis : i \in known}))
  BY DEF IcpFit, known, matched
<1>5. CombineBasis({icp[i].basis : i \in known}) \in {"INFERRED", "OBSERVED"}
  BY DEF CombineBasis
<1> QED BY <1>3, <1>4, <1>5, FactorNames DEF known, matched

\* The signals that show a problem, and the one that counts.
Problems(signs) == {i \in LiveSignals(signs) : signs[i].confidence >= 50}
Shown(signs) == signs[Strongest(signs, Problems(signs))]
Severity(signs, today) == Shown(signs).confidence * Decay(today - Shown(signs).observedOn)

LEMMA DecayFacts ==
    ASSUME NEW a \in Int, NEW b \in Int, a <= b
    PROVE  Decay(a) \in 0..150 /\ Decay(b) <= Decay(a)
BY DEF Decay, DecaySpan, SIGNAL_FRESH_DAYS, SIGNAL_MAX_AGE_DAYS

LEMMA VisibleProblemFacts ==
    ASSUME NEW signs, Scorable(signs), NEW today \in Int
    PROVE  /\ Problems(signs) = {} =>
                 VisibleProblem(signs, today) = FactorScore("visibleProblem", 0, 1, "UNKNOWN")
           /\ Problems(signs) # {} =>
                 /\ Severity(signs, today) \in Nat
                 /\ \A later \in Int :
                       later > today => Severity(signs, later) <= Severity(signs, today)
                 /\ VisibleProblem(signs, today) =
                      FactorScore("visibleProblem", Severity(signs, today), 15000, "OBSERVED")
<1>1. CASE Problems(signs) = {}
  BY <1>1 DEF VisibleProblem, Problems
<1>2. CASE Problems(signs) # {}
  <2>1. Problems(signs) \in SUBSET DOMAIN signs
    BY DEF Problems, LiveSignals
  <2>2. Strongest(signs, Problems(signs)) \in DOMAIN signs
    BY <1>2, <2>1, StrongestExists
  <2>3. Shown(signs).confidence \in 0..100 /\ Shown(signs).observedOn \in Int
    BY <2>2 DEF Scorable, Shown
  <2>4. 100 * DecaySpan = 15000
    BY DEF DecaySpan, SIGNAL_FRESH_DAYS, SIGNAL_MAX_AGE_DAYS
  <2>5. VisibleProblem(signs, today) =
          FactorScore("visibleProblem", Severity(signs, today), 100 * DecaySpan, "OBSERVED")
    BY <1>2 DEF VisibleProblem, Severity, Shown, Problems
  <2>6. /\ Decay(today - Shown(signs).observedOn) \in Nat
        /\ \A later \in Int : later > today =>
              /\ Decay(later - Shown(signs).observedOn) \in Nat
              /\ Decay(later - Shown(signs).observedOn) <= Decay(today - Shown(signs).observedOn)
    <3> DEFINE age == today - Shown(signs).observedOn
    <3>1. age \in Int
      BY <2>3
    <3>2. Decay(age) \in Nat
      BY <3>1, DecayFacts
    <3>3. ASSUME NEW later \in Int, later > today
          PROVE  /\ Decay(later - Shown(signs).observedOn) \in Nat
                 /\ Decay(later - Shown(signs).observedOn) <= Decay(age)
      <4> DEFINE older == later - Shown(signs).observedOn
      <4>1. older \in Int /\ age <= older
        BY <2>3, <3>3
      <4> HIDE DEF age, older
      <4>2. Decay(older) \in 0..150 /\ Decay(older) <= Decay(age)
        BY <3>1, <4>1, DecayFacts
      <4> QED BY <4>2 DEF older
    <3> QED BY <3>2, <3>3
  <2>7. \A later \in Int :
          later > today => Severity(signs, later) <= Severity(signs, today)
    BY <2>3, <2>6, ProductIsMonotone DEF Severity
  <2> QED BY <1>2, <2>3, <2>4, <2>5, <2>6, <2>7, ProductIsNat DEF Severity
<1> QED BY <1>1, <1>2

LEMMA EvidenceFacts ==
    ASSUME NEW signs, Scorable(signs)
    PROVE  LET sourced == {i \in LiveSignals(signs) : signs[i].confidence >= 70}
           IN  /\ Cardinality(sourced) \in Nat
               /\ sourced = {} => Cardinality(sourced) = 0
<1> DEFINE sourced == {i \in LiveSignals(signs) : signs[i].confidence >= 70}
<1>1. sourced \subseteq DOMAIN signs /\ IsFiniteSet(DOMAIN signs)
  BY DEF LiveSignals, Scorable
<1>2. IsFiniteSet(sourced)
  BY <1>1, FS_Subset
<1> QED BY <1>2, FS_CardinalityType, FS_EmptySet

\* Every factor is scored within its weight, and what is unknown earns nothing.
LEMMA FactorsFit ==
    ASSUME NEW input, Described(input), NEW today \in Int
    PROVE  \A factor \in DOMAIN FACTOR_WEIGHTS : Scored(FactorScores(input, today)[factor], factor)
<1>1. Scored(IcpFit(input.icp), "icpFit")
  <2> DEFINE icp == input.icp
             known == {i \in DOMAIN icp : icp[i].basis # "UNKNOWN"}
             matched == {i \in known : icp[i].value = TRUE}
             basis == IF known = {} THEN "UNKNOWN"
                      ELSE CombineBasis({icp[i].basis : i \in known})
  <2>1. /\ Cardinality(matched) \in Nat /\ basis \in Bases
        /\ IcpFit(icp) = FactorScore("icpFit", Cardinality(matched), 3, basis)
    BY IcpFitFacts DEF Described
  <2> HIDE DEF icp, matched, basis
  <2> QED BY <2>1, FactorScoreFits, FactorNames DEF icp
<1>2. Scored(VisibleProblem(input.signals, today), "visibleProblem")
  <2>1. Scorable(input.signals)
    BY DEF Described
  <2>2. CASE Problems(input.signals) = {}
    <3>1. VisibleProblem(input.signals, today) = FactorScore("visibleProblem", 0, 1, "UNKNOWN")
      BY <2>1, <2>2, VisibleProblemFacts
    <3> QED BY <3>1, FactorScoreFits, FactorNames
  <2>3. CASE Problems(input.signals) # {}
    BY <2>1, <2>3, VisibleProblemFacts, FactorScoreFits, FactorNames
  <2> QED BY <2>2, <2>3
<1>3. Scored(FactorScore("abilityToPay", PayRaw(input.abilityToPay.value), 5,
                       input.abilityToPay.basis), "abilityToPay")
  <2>1. PayRaw(input.abilityToPay.value) \in Nat
    BY DEF PayRaw
  <2>2. input.abilityToPay.basis \in Bases
    BY DEF Described, ClaimsOver
  <2> QED BY <2>1, <2>2, FactorScoreFits, FactorNames
<1>4. Scored(FactorScore("urgency", UrgencyRaw(input.urgency.value), 5,
                       input.urgency.basis), "urgency")
  <2>1. UrgencyRaw(input.urgency.value) \in Nat
    BY DEF UrgencyRaw
  <2>2. input.urgency.basis \in Bases
    BY DEF Described, ClaimsOver
  <2> QED BY <2>1, <2>2, FactorScoreFits, FactorNames
<1>5. Scored(ServiceFit(input.serviceFit), "serviceFit")
  <2> DEFINE claim == input.serviceFit
             n == IF claim.value = None THEN 0 ELSE claim.value
  <2>1. n \in Nat /\ claim.basis \in Bases
    BY DEF Described, ClaimsOver
  <2>2. ServiceFit(claim) = FactorScore("serviceFit", n, 100, claim.basis)
    BY DEF ServiceFit
  <2> HIDE DEF n
  <2> QED BY <2>1, <2>2, FactorScoreFits, FactorNames
<1>6. Scored(EvidenceQuality(input.signals), "evidenceQuality")
  BY EvidenceFacts, FactorScoreFits, FactorNames DEF Described, EvidenceQuality
<1>7. Scored(Contactability(input.contact), "contactability")
  BY FactorScoreFits, FactorNames DEF Described, Contactability
<1> QED BY <1>1, <1>2, <1>3, <1>4, <1>5, <1>6, <1>7, FactorNames DEF FactorScores

--------------------------------------------------------------------------
(* The score as a sum.                                                     *)

\* The points of each factor, and those of them that count as observed or as inferred.
Seen(f) == IF f.basis = "OBSERVED" THEN f.points ELSE 0
Guessed(f) == IF f.basis = "INFERRED" THEN f.points ELSE 0

\* All factors but contactability, in the order of FACTOR_WEIGHTS.
Merit(fs) == fs.icpFit.points + fs.visibleProblem.points + fs.abilityToPay.points
             + fs.urgency.points + fs.serviceFit.points + fs.evidenceQuality.points
SeenMerit(fs) == Seen(fs.icpFit) + Seen(fs.visibleProblem) + Seen(fs.abilityToPay)
                 + Seen(fs.urgency) + Seen(fs.serviceFit) + Seen(fs.evidenceQuality)
GuessedMerit(fs) == Guessed(fs.icpFit) + Guessed(fs.visibleProblem) + Guessed(fs.abilityToPay)
                    + Guessed(fs.urgency) + Guessed(fs.serviceFit) + Guessed(fs.evidenceQuality)

\* Factors of an input, each in its place.
AllFit(fs) ==
    /\ Scored(fs.icpFit, "icpFit") /\ Scored(fs.visibleProblem, "visibleProblem")
    /\ Scored(fs.abilityToPay, "abilityToPay") /\ Scored(fs.urgency, "urgency")
    /\ Scored(fs.serviceFit, "serviceFit") /\ Scored(fs.evidenceQuality, "evidenceQuality")
    /\ Scored(fs.contactability, "contactability")

LEMMA FactorScoresFit ==
    ASSUME NEW input, Described(input), NEW today \in Int
    PROVE  AllFit(FactorScores(input, today))
BY FactorsFit, FactorNames DEF AllFit

LEMMA SumsOfPoints ==
    ASSUME NEW fs, AllFit(fs)
    PROVE  /\ SumOfPoints(fs, LAMBDA f : TRUE) = Merit(fs) + fs.contactability.points
           /\ SumOfPoints(fs, Evidential) = Merit(fs)
           /\ SumOfPoints(fs, LAMBDA f : Evidential(f) /\ f.basis = "OBSERVED") = SeenMerit(fs)
           /\ \A b \in Bases :
                 SumOfPoints(fs, LAMBDA f : f.basis = b /\ f.factor # "contactability")
                   = (IF fs.icpFit.basis = b THEN fs.icpFit.points ELSE 0)
                     + (IF fs.visibleProblem.basis = b THEN fs.visibleProblem.points ELSE 0)
                     + (IF fs.abilityToPay.basis = b THEN fs.abilityToPay.points ELSE 0)
                     + (IF fs.urgency.basis = b THEN fs.urgency.points ELSE 0)
                     + (IF fs.serviceFit.basis = b THEN fs.serviceFit.points ELSE 0)
                     + (IF fs.evidenceQuality.basis = b THEN fs.evidenceQuality.points ELSE 0)
           /\ Merit(fs) \in Nat /\ SeenMerit(fs) \in Nat /\ GuessedMerit(fs) \in Nat
           /\ Merit(fs) = SeenMerit(fs) + GuessedMerit(fs)
<1>1. SumOfPoints(fs, LAMBDA f : TRUE) = Merit(fs) + fs.contactability.points
  BY DEF SumOfPoints, Merit
<1>2. SumOfPoints(fs, Evidential) = Merit(fs)
  <2>1. SumOfPoints(fs, Evidential) =
          (IF Evidential(fs.icpFit) THEN fs.icpFit.points ELSE 0)
          + (IF Evidential(fs.visibleProblem) THEN fs.visibleProblem.points ELSE 0)
          + (IF Evidential(fs.abilityToPay) THEN fs.abilityToPay.points ELSE 0)
          + (IF Evidential(fs.urgency) THEN fs.urgency.points ELSE 0)
          + (IF Evidential(fs.serviceFit) THEN fs.serviceFit.points ELSE 0)
          + (IF Evidential(fs.evidenceQuality) THEN fs.evidenceQuality.points ELSE 0)
          + (IF Evidential(fs.contactability) THEN fs.contactability.points ELSE 0)
    BY DEF SumOfPoints
  <2> QED BY <2>1 DEF Merit, Evidential, AllFit, Scored, FACTOR_WEIGHTS
<1>3. SumOfPoints(fs, LAMBDA f : Evidential(f) /\ f.basis = "OBSERVED") = SeenMerit(fs)
  BY DEF SumOfPoints, SeenMerit, Seen, Evidential, AllFit, Scored, FACTOR_WEIGHTS
<1>4. ASSUME NEW b \in Bases
      PROVE  SumOfPoints(fs, LAMBDA f : f.basis = b /\ f.factor # "contactability")
                   = (IF fs.icpFit.basis = b THEN fs.icpFit.points ELSE 0)
                     + (IF fs.visibleProblem.basis = b THEN fs.visibleProblem.points ELSE 0)
                     + (IF fs.abilityToPay.basis = b THEN fs.abilityToPay.points ELSE 0)
                     + (IF fs.urgency.basis = b THEN fs.urgency.points ELSE 0)
                     + (IF fs.serviceFit.basis = b THEN fs.serviceFit.points ELSE 0)
                     + (IF fs.evidenceQuality.basis = b THEN fs.evidenceQuality.points ELSE 0)
  BY DEF SumOfPoints, AllFit, Scored, FACTOR_WEIGHTS
<1>5. \A f, factor : Scored(f, factor) /\ factor \in DOMAIN FACTOR_WEIGHTS =>
        /\ Seen(f) \in Nat /\ Guessed(f) \in Nat /\ f.points \in Nat
        /\ f.points = Seen(f) + Guessed(f)
  BY DEF Scored, Seen, Guessed, Bases, FACTOR_WEIGHTS
<1>6. \A f \in {fs.icpFit, fs.visibleProblem, fs.abilityToPay, fs.urgency, fs.serviceFit,
                fs.evidenceQuality} :
        /\ Seen(f) \in Nat /\ Guessed(f) \in Nat /\ f.points \in Nat
        /\ f.points = Seen(f) + Guessed(f)
  BY <1>5, FactorNames DEF AllFit
<1>7. /\ Merit(fs) \in Nat /\ SeenMerit(fs) \in Nat /\ GuessedMerit(fs) \in Nat
      /\ Merit(fs) = SeenMerit(fs) + GuessedMerit(fs)
  BY <1>6 DEF Merit, SeenMerit, GuessedMerit
<1> QED BY <1>1, <1>2, <1>3, <1>4, <1>7

\* What ScoreProspect makes of the factors.
LEMMA ScoreShape ==
    ASSUME NEW input, Described(input), NEW today \in Int
    PROVE  LET fs == FactorScores(input, today)
               sum == Merit(fs) + fs.contactability.points
               s == ScoreProspect(input, today)
           IN  /\ sum \in Nat /\ Merit(fs) \in Nat /\ SeenMerit(fs) \in Nat
               /\ s.factors = fs
               /\ input.contact.unsubscribed => s.score = 0 /\ s.band = "LOW"
               /\ ~input.contact.unsubscribed =>
                     /\ s.score = AtMost(100, sum)
                     /\ s.band = IF BandFor(AtMost(100, sum)) = "HIGH"
                                    /\ 2 * SeenMerit(fs) < Merit(fs)
                                 THEN "MEDIUM" ELSE BandFor(AtMost(100, sum))
<1> DEFINE fs == FactorScores(input, today)
<1>1. AllFit(fs)
  BY FactorScoresFit
<1>2. fs.contactability.points \in Nat
  BY <1>1 DEF AllFit, Scored, FACTOR_WEIGHTS
<1>3. /\ SumOfPoints(fs, LAMBDA f : TRUE) = Merit(fs) + fs.contactability.points
      /\ SumOfPoints(fs, Evidential) = Merit(fs)
      /\ SumOfPoints(fs, LAMBDA f : Evidential(f) /\ f.basis = "OBSERVED") = SeenMerit(fs)
      /\ Merit(fs) \in Nat /\ SeenMerit(fs) \in Nat
  BY <1>1, SumsOfPoints
<1> HIDE DEF fs
<1>4. ScoreProspect(input, today) =
        LET score == AtMost(100, Merit(fs) + fs.contactability.points)
            capped == BandFor(score) = "HIGH" /\ 2 * SeenMerit(fs) < Merit(fs)
        IN  IF input.contact.unsubscribed
            THEN [score |-> 0, band |-> "LOW", factors |-> fs, observed |-> 1, evidential |-> 1]
            ELSE [score |-> score, band |-> IF capped THEN "MEDIUM" ELSE BandFor(score),
                  factors |-> fs, observed |-> SeenMerit(fs), evidential |-> Merit(fs)]
  BY <1>3 DEF ScoreProspect, fs
<1> QED BY <1>2, <1>3, <1>4 DEF fs

--------------------------------------------------------------------------
(* What a score promises.                                                  *)

\* A band of HIGH is not capped, so half of the evidence at least was seen.
LEMMA HighRests ==
    ASSUME NEW input, Described(input), NEW today \in Int
    PROVE  HighRestsOnFacts(input, today)
<1> DEFINE fs == FactorScores(input, today)
<1>1. AllFit(fs)
  BY FactorScoresFit
<1> HIDE DEF fs
<1>2. SumOfPoints(fs, LAMBDA f : f.basis = "OBSERVED" /\ f.factor # "contactability")
        = SeenMerit(fs)
  BY <1>1, SumsOfPoints, FactorNames DEF SeenMerit, Seen
<1>3. SumOfPoints(fs, LAMBDA f : f.basis = "INFERRED" /\ f.factor # "contactability")
        = GuessedMerit(fs)
  BY <1>1, SumsOfPoints, FactorNames DEF GuessedMerit, Guessed
<1>4. /\ SeenMerit(fs) \in Nat /\ GuessedMerit(fs) \in Nat
      /\ Merit(fs) = SeenMerit(fs) + GuessedMerit(fs)
  BY <1>1, SumsOfPoints
<1>5. SUFFICES ASSUME ScoreProspect(input, today).band = "HIGH"
               PROVE  SeenMerit(fs) >= GuessedMerit(fs)
  BY <1>2, <1>3 DEF HighRestsOnFacts, fs
<1>6. ~(2 * SeenMerit(fs) < Merit(fs))
  BY <1>5, ScoreShape DEF BandFor, fs
<1> QED BY <1>4, <1>6

\* A score with fewer points has no better a band, unless the cap is lifted.
LEMMA FewerPoints ==
    ASSUME NEW before, Described(before), NEW today \in Int,
           NEW after, Described(after), NEW later \in Int,
           after.contact = before.contact,
           LET fs == FactorScores(before, today)
               gs == FactorScores(after, later)
           IN  /\ Merit(gs) + gs.contactability.points <= Merit(fs) + fs.contactability.points
               /\ 2 * SeenMerit(fs) < Merit(fs) => 2 * SeenMerit(gs) < Merit(gs)
    PROVE  /\ ScoreProspect(after, later).score <= ScoreProspect(before, today).score
           /\ Rank(ScoreProspect(after, later).band) <= Rank(ScoreProspect(before, today).band)
<1> DEFINE fs == FactorScores(before, today)
           gs == FactorScores(after, later)
           a == Merit(gs) + gs.contactability.points
           b == Merit(fs) + fs.contactability.points
           capA == 2 * SeenMerit(gs) < Merit(gs)
           capB == 2 * SeenMerit(fs) < Merit(fs)
           before_ == ScoreProspect(before, today)
           after_ == ScoreProspect(after, later)
<1>1. CASE before.contact.unsubscribed
  <2>1. /\ before_.score = 0 /\ before_.band = "LOW"
        /\ after_.score = 0 /\ after_.band = "LOW"
    BY <1>1, ScoreShape
  <2> HIDE DEF before_, after_
  <2>2. after_.score <= before_.score /\ Rank(after_.band) <= Rank(before_.band)
    BY <2>1 DEF Rank
  <2> QED BY <2>2 DEF before_, after_
<1>2. CASE ~before.contact.unsubscribed
  <2>1. /\ a \in Nat /\ b \in Nat /\ a <= b /\ (capB => capA)
        /\ before_.score = AtMost(100, b)
        /\ before_.band = IF BandFor(AtMost(100, b)) = "HIGH" /\ capB THEN "MEDIUM"
                           ELSE BandFor(AtMost(100, b))
        /\ after_.score = AtMost(100, a)
        /\ after_.band = IF BandFor(AtMost(100, a)) = "HIGH" /\ capA THEN "MEDIUM"
                          ELSE BandFor(AtMost(100, a))
    BY <1>2, ScoreShape
  <2> HIDE DEF before_, after_, a, b, capA, capB
  <2>2. after_.score <= before_.score /\ Rank(after_.band) <= Rank(before_.band)
    BY <2>1 DEF AtMost, BandFor, Rank
  <2> QED BY <2>2 DEF before_, after_
<1> QED BY <1>1, <1>2

\* Only the visible problem fades, and it was seen: the cap is not lifted by that.
LEMMA Aging ==
    ASSUME NEW input, Described(input), NEW today \in Int, NEW later \in Int, later > today
    PROVE  AgingNeverPromotes(input, today, later)
<1> DEFINE fs == FactorScores(input, today)
           gs == FactorScores(input, later)
<1>1. AllFit(fs) /\ AllFit(gs)
  BY FactorScoresFit
<1>2. /\ gs.icpFit = fs.icpFit /\ gs.abilityToPay = fs.abilityToPay /\ gs.urgency = fs.urgency
      /\ gs.serviceFit = fs.serviceFit /\ gs.evidenceQuality = fs.evidenceQuality
      /\ gs.contactability = fs.contactability
      /\ fs.visibleProblem = VisibleProblem(input.signals, today)
      /\ gs.visibleProblem = VisibleProblem(input.signals, later)
  BY DEF FactorScores
<1>3. /\ gs.visibleProblem.points <= fs.visibleProblem.points
      /\ gs.visibleProblem.basis = fs.visibleProblem.basis
      /\ fs.visibleProblem.basis \in {"OBSERVED", "UNKNOWN"}
  <2>1. Scorable(input.signals)
    BY DEF Described
  <2>2. CASE Problems(input.signals) = {}
    <3>1. /\ fs.visibleProblem = FactorScore("visibleProblem", 0, 1, "UNKNOWN")
          /\ gs.visibleProblem = FactorScore("visibleProblem", 0, 1, "UNKNOWN")
      BY <1>2, <2>1, <2>2, VisibleProblemFacts
    <3> HIDE DEF fs, gs
    <3>2. Scored(FactorScore("visibleProblem", 0, 1, "UNKNOWN"), "visibleProblem")
      BY FactorScoreFits, FactorNames
    <3>3. fs.visibleProblem.basis = "UNKNOWN"
      BY <3>1 DEF FactorScore
    <3> QED BY <3>1, <3>2, <3>3 DEF Scored, FACTOR_WEIGHTS
  <2>3. CASE Problems(input.signals) # {}
    <3> DEFINE m == Severity(input.signals, later)
               n == Severity(input.signals, today)
    <3>1. /\ m \in Nat /\ n \in Nat /\ m <= n
          /\ fs.visibleProblem = FactorScore("visibleProblem", n, 15000, "OBSERVED")
          /\ gs.visibleProblem = FactorScore("visibleProblem", m, 15000, "OBSERVED")
      BY <1>2, <2>1, <2>3, VisibleProblemFacts
    <3> HIDE DEF fs, gs, m, n
    <3>2. AtMost(15000, m) * 20 \in Nat /\ AtMost(15000, n) * 20 \in Nat
          /\ AtMost(15000, m) * 20 <= AtMost(15000, n) * 20
      BY <3>1 DEF AtMost
    <3>3. Round(AtMost(15000, m) * 20, 15000) <= Round(AtMost(15000, n) * 20, 15000)
      BY <3>2, RoundIsMonotone
    <3> QED BY <3>1, <3>3 DEF FactorScore, FACTOR_WEIGHTS
  <2> QED BY <2>2, <2>3
<1>4. Merit(gs) + gs.contactability.points <= Merit(fs) + fs.contactability.points
  <2> HIDE DEF fs, gs
  <2> QED BY <1>1, <1>2, <1>3 DEF Merit, AllFit, Scored, FACTOR_WEIGHTS
<1>5. 2 * SeenMerit(fs) < Merit(fs) => 2 * SeenMerit(gs) < Merit(gs)
  <2> HIDE DEF fs, gs
  <2>1. Merit(fs) = SeenMerit(fs) + GuessedMerit(fs) /\ Merit(gs) = SeenMerit(gs) + GuessedMerit(gs)
    BY <1>1, SumsOfPoints
  <2>2. /\ SeenMerit(fs) \in Nat /\ SeenMerit(gs) \in Nat
        /\ GuessedMerit(fs) \in Nat /\ GuessedMerit(gs) \in Nat
    BY <1>1, SumsOfPoints
  <2>3. Guessed(gs.visibleProblem) = 0 /\ Guessed(fs.visibleProblem) = 0
    BY <1>3 DEF Guessed
  <2>4. GuessedMerit(gs) = GuessedMerit(fs)
    BY <1>2, <2>3 DEF GuessedMerit
  <2>5. SeenMerit(gs) <= SeenMerit(fs)
    <3>1. Seen(gs.visibleProblem) <= Seen(fs.visibleProblem)
      BY <1>1, <1>3 DEF Seen, AllFit, Scored, FACTOR_WEIGHTS
    <3>2. /\ Seen(fs.icpFit) \in Int /\ Seen(fs.abilityToPay) \in Int /\ Seen(fs.urgency) \in Int
          /\ Seen(fs.serviceFit) \in Int /\ Seen(fs.evidenceQuality) \in Int
          /\ Seen(fs.visibleProblem) \in Int /\ Seen(gs.visibleProblem) \in Int
      BY <1>1 DEF Seen, AllFit, Scored, FACTOR_WEIGHTS
    <3> QED BY <1>2, <3>1, <3>2 DEF SeenMerit
  <2> QED BY <2>1, <2>2, <2>4, <2>5
<1>6. /\ ScoreProspect(input, later).score <= ScoreProspect(input, today).score
      /\ Rank(ScoreProspect(input, later).band) <= Rank(ScoreProspect(input, today).band)
  BY <1>4, <1>5, FewerPoints
<1> QED BY <1>6 DEF AgingNeverPromotes

\* A factor that was seen and is now inferred earns no more, and weighs as inferred.
Demoted(g, f) ==
    /\ g.points <= f.points
    /\ Seen(g) = 0
    /\ Guessed(f) <= Guessed(g)

Demote(basis) == IF basis = "OBSERVED" THEN "INFERRED" ELSE basis

LEMMA FactorIsDemoted ==
    ASSUME NEW factor \in DOMAIN FACTOR_WEIGHTS, NEW n \in Nat, NEW d \in Nat \ {0},
           NEW basis \in Bases
    PROVE  Demoted(FactorScore(factor, n, d, Demote(basis)), FactorScore(factor, n, d, basis))
<1> DEFINE f == FactorScore(factor, n, d, basis)
           g == FactorScore(factor, n, d, Demote(basis))
<1>1. Demote(basis) \in Bases
  BY DEF Demote, Bases
<1>2. f.basis = basis /\ g.basis = Demote(basis)
  BY <1>1, FactorScoreFacts
<1>3. f.points \in 0..FACTOR_WEIGHTS[factor] /\ g.points \in 0..FACTOR_WEIGHTS[factor]
  BY <1>1, FactorScoreFacts
<1>4. g.points <= f.points
  <2>1. CASE basis = "OBSERVED"
    BY <2>1, FactorScoreFacts DEF Demote
  <2>2. CASE basis # "OBSERVED"
    BY <1>3, <2>2, FactorNames DEF Demote, FACTOR_WEIGHTS
  <2> QED BY <2>1, <2>2
<1>5. basis # "OBSERVED" => g = f
  BY DEF Demote
<1> HIDE DEF f, g
<1>6. f.points \in Nat /\ g.points \in Nat
  BY <1>3 DEF FACTOR_WEIGHTS
<1>7. Seen(g) = 0 /\ Guessed(f) <= Guessed(g)
  BY <1>2, <1>5, <1>6 DEF Seen, Guessed, Demote, Bases
<1> QED BY <1>4, <1>7 DEF Demoted, f, g

\* Which attributes are known and match does not depend on how they are known.
LEMMA IcpIsDemoted ==
    ASSUME NEW icp \in [1..3 -> ClaimsOver(BOOLEAN)]
    PROVE  LET inferred == [i \in DOMAIN icp |-> Inferred(icp[i])]
           IN  /\ inferred \in [1..3 -> ClaimsOver(BOOLEAN)]
               /\ Demoted(IcpFit(inferred), IcpFit(icp))
<1> DEFINE Known(a) == {i \in DOMAIN a : a[i].basis # "UNKNOWN"}
           Matched(a) == {i \in Known(a) : a[i].value = TRUE}
           Basis(a) == IF Known(a) = {} THEN "UNKNOWN"
                       ELSE CombineBasis({a[i].basis : i \in Known(a)})
           inferred == [i \in DOMAIN icp |-> Inferred(icp[i])]
<1>1. \A i \in 1..3 : /\ Inferred(icp[i]) \in ClaimsOver(BOOLEAN)
                      /\ Inferred(icp[i]).value = icp[i].value
                      /\ Inferred(icp[i]).basis = Demote(icp[i].basis)
  BY DEF Inferred, ClaimsOver, Bases, Demote
<1>2. inferred \in [1..3 -> ClaimsOver(BOOLEAN)]
  BY <1>1
<1>3. Known(inferred) = Known(icp) /\ Matched(inferred) = Matched(icp)
  BY <1>1 DEF Demote
<1>4. ASSUME NEW a \in [1..3 -> ClaimsOver(BOOLEAN)]
      PROVE  /\ Cardinality(Matched(a)) \in Nat /\ Basis(a) \in Bases
             /\ IcpFit(a) = FactorScore("icpFit", Cardinality(Matched(a)), 3, Basis(a))
             /\ Basis(a) = "UNKNOWN" <=> Known(a) = {}
  BY IcpFitFacts
<1>5. Basis(inferred) = Demote(Basis(icp))
  <2>1. CASE Known(icp) = {}
    BY <1>3, <2>1 DEF Demote
  <2>2. CASE Known(icp) # {}
    <3>1. PICK i \in Known(icp) : TRUE
      BY <2>2
    <3>2. inferred[i].basis = "INFERRED" /\ i \in Known(inferred)
      BY <1>1, <1>3, <3>1 DEF ClaimsOver, Bases, Demote
    <3>3. "INFERRED" \in {inferred[j].basis : j \in Known(inferred)}
      BY <3>2
    <3>4. Basis(inferred) = "INFERRED"
      BY <3>2, <3>3 DEF CombineBasis
    <3>5. Basis(icp) \in {"INFERRED", "OBSERVED"}
      BY <2>2 DEF CombineBasis
    <3> QED BY <3>4, <3>5 DEF Demote
  <2> QED BY <2>1, <2>2
<1>6. /\ IcpFit(icp) = FactorScore("icpFit", Cardinality(Matched(icp)), 3, Basis(icp))
      /\ IcpFit(inferred) = FactorScore("icpFit", Cardinality(Matched(icp)), 3, Demote(Basis(icp)))
      /\ Cardinality(Matched(icp)) \in Nat /\ Basis(icp) \in Bases
  BY <1>2, <1>3, <1>4, <1>5
<1> HIDE DEF Matched, Known, Basis
<1>7. Demoted(IcpFit(inferred), IcpFit(icp))
  BY <1>6, FactorIsDemoted, FactorNames
<1> QED BY <1>2, <1>7

\* Every claim taken as inferred earns no more than it did, and the cap is not lifted.
LEMMA Inference ==
    ASSUME NEW input \in ProspectInputs, NEW today \in Int
    PROVE  InferenceNeverHelps(input, today)
<1> DEFINE inferred == [input EXCEPT
            !.icp = [i \in DOMAIN input.icp |-> Inferred(input.icp[i])],
            !.abilityToPay = Inferred(@), !.urgency = Inferred(@), !.serviceFit = Inferred(@)]
           fs == FactorScores(input, today)
           gs == FactorScores(inferred, today)
<1>1. Described(input)
  BY EnteredIsDescribed
<1>2. /\ inferred.icp = [i \in DOMAIN input.icp |-> Inferred(input.icp[i])]
      /\ inferred.abilityToPay = Inferred(input.abilityToPay)
      /\ inferred.urgency = Inferred(input.urgency)
      /\ inferred.serviceFit = Inferred(input.serviceFit)
      /\ inferred.contact = input.contact /\ inferred.signals = input.signals
  BY DEF ProspectInputs
<1>3. ASSUME NEW values, NEW claim \in ClaimsOver(values)
      PROVE  /\ Inferred(claim) \in ClaimsOver(values)
             /\ Inferred(claim).value = claim.value /\ Inferred(claim).basis = Demote(claim.basis)
  BY <1>3 DEF Inferred, ClaimsOver, Bases, Demote
<1> HIDE DEF inferred
<1>4. /\ inferred.icp \in [1..3 -> ClaimsOver(BOOLEAN)]
      /\ Demoted(IcpFit(inferred.icp), IcpFit(input.icp))
  BY <1>1, <1>2, IcpIsDemoted DEF Described
<1>5. Described(inferred)
  BY <1>1, <1>2, <1>3, <1>4 DEF Described
<1>6. AllFit(fs) /\ AllFit(gs)
  BY <1>1, <1>5, FactorScoresFit
<1>7. /\ Demoted(gs.icpFit, fs.icpFit)
      /\ gs.visibleProblem = fs.visibleProblem
      /\ gs.evidenceQuality = fs.evidenceQuality
      /\ gs.contactability = fs.contactability
  BY <1>2, <1>4 DEF FactorScores
<1>8. Demoted(gs.abilityToPay, fs.abilityToPay)
  <2>1. /\ fs.abilityToPay = FactorScore("abilityToPay", PayRaw(input.abilityToPay.value), 5,
                                         input.abilityToPay.basis)
        /\ gs.abilityToPay = FactorScore("abilityToPay", PayRaw(input.abilityToPay.value), 5,
                                         Demote(input.abilityToPay.basis))
    BY <1>1, <1>2, <1>3 DEF FactorScores, Described
  <2>2. PayRaw(input.abilityToPay.value) \in Nat
    BY DEF PayRaw
  <2>3. input.abilityToPay.basis \in Bases
    BY <1>1 DEF Described, ClaimsOver
  <2> HIDE DEF fs, gs
  <2> QED BY <2>1, <2>2, <2>3, FactorIsDemoted, FactorNames
<1>9. Demoted(gs.urgency, fs.urgency)
  <2>1. /\ fs.urgency = FactorScore("urgency", UrgencyRaw(input.urgency.value), 5,
                                    input.urgency.basis)
        /\ gs.urgency = FactorScore("urgency", UrgencyRaw(input.urgency.value), 5,
                                    Demote(input.urgency.basis))
    BY <1>1, <1>2, <1>3 DEF FactorScores, Described
  <2>2. UrgencyRaw(input.urgency.value) \in Nat
    BY DEF UrgencyRaw
  <2>3. input.urgency.basis \in Bases
    BY <1>1 DEF Described, ClaimsOver
  <2> HIDE DEF fs, gs
  <2> QED BY <2>1, <2>2, <2>3, FactorIsDemoted, FactorNames
<1>10. Demoted(gs.serviceFit, fs.serviceFit)
  <2> DEFINE n == IF input.serviceFit.value = None THEN 0 ELSE input.serviceFit.value
  <2>1. /\ fs.serviceFit = FactorScore("serviceFit", n, 100, input.serviceFit.basis)
        /\ gs.serviceFit = FactorScore("serviceFit", n, 100, Demote(input.serviceFit.basis))
    BY <1>1, <1>2, <1>3 DEF FactorScores, ServiceFit, Described
  <2>2. n \in Nat /\ input.serviceFit.basis \in Bases
    BY <1>1 DEF Described, ClaimsOver
  <2> HIDE DEF fs, gs, n
  <2> QED BY <2>1, <2>2, FactorIsDemoted, FactorNames
<1>11. /\ Merit(gs) + gs.contactability.points <= Merit(fs) + fs.contactability.points
       /\ 2 * SeenMerit(fs) < Merit(fs) => 2 * SeenMerit(gs) < Merit(gs)
  <2> HIDE DEF fs, gs
  <2>1. \A f \in {fs.icpFit, fs.visibleProblem, fs.abilityToPay, fs.urgency, fs.serviceFit,
                 fs.evidenceQuality, fs.contactability, gs.icpFit, gs.abilityToPay, gs.urgency,
                 gs.serviceFit} :
          f.points \in Nat /\ Seen(f) \in Nat /\ Guessed(f) \in Nat
    BY <1>6 DEF AllFit, Scored, FACTOR_WEIGHTS, Seen, Guessed
  <2>2. /\ Merit(fs) = SeenMerit(fs) + GuessedMerit(fs)
        /\ Merit(gs) = SeenMerit(gs) + GuessedMerit(gs)
        /\ SeenMerit(fs) \in Nat /\ GuessedMerit(fs) \in Nat
        /\ SeenMerit(gs) \in Nat /\ GuessedMerit(gs) \in Nat
    BY <1>6, SumsOfPoints
  <2>3. Merit(gs) <= Merit(fs)
    BY <1>7, <1>8, <1>9, <1>10, <2>1 DEF Merit, Demoted
  <2>4. SeenMerit(gs) <= SeenMerit(fs)
    BY <1>7, <1>8, <1>9, <1>10, <2>1 DEF SeenMerit, Demoted
  <2>5. GuessedMerit(fs) <= GuessedMerit(gs)
    BY <1>7, <1>8, <1>9, <1>10, <2>1 DEF GuessedMerit, Demoted
  <2>6. Merit(fs) \in Nat /\ Merit(gs) \in Nat
    BY <2>2
  <2>7. Merit(gs) + gs.contactability.points <= Merit(fs) + fs.contactability.points
    BY <1>7, <2>1, <2>3, <2>6
  <2> QED BY <2>2, <2>4, <2>5, <2>7
<1>12. /\ ScoreProspect(inferred, today).score <= ScoreProspect(input, today).score
       /\ Rank(ScoreProspect(inferred, today).band) <= Rank(ScoreProspect(input, today).band)
  BY <1>1, <1>2, <1>5, <1>11, FewerPoints
<1> QED BY <1>12 DEF InferenceNeverHelps, inferred

--------------------------------------------------------------------------
(* A prospect that is entered.                                             *)

\* It is one of those that may be, on one of the days.
ProspectsIInv == (prospect # None => prospect \in ScoreInputs) /\ day \in Ages

LEMMA ProspectsInductive ==
    /\ ProspectsInit => ProspectsIInv
    /\ ProspectsIInv /\ [ProspectsNext]_prospectVars => ProspectsIInv'
    /\ ProspectsIInv => ProspectsHold
<1>1. ProspectsInit => ProspectsIInv
  BY ScoreConstants DEF ProspectsInit, ProspectsIInv
<1>2. ProspectsIInv /\ [ProspectsNext]_prospectVars => ProspectsIInv'
  BY DEF ProspectsIInv, ProspectsNext, EnterProspect, ProspectAges, prospectVars
<1>3. ProspectsIInv => ProspectsHold
  <2> SUFFICES ASSUME ProspectsIInv, prospect # None PROVE ProspectsHold
    BY DEF ProspectsHold
  <2>1. prospect \in ProspectInputs /\ day \in Int /\ Ages \subseteq Int
    BY ScoreConstants DEF ProspectsIInv
  <2>2. Described(prospect)
    BY <2>1, EnteredIsDescribed
  <2>3. HighRestsOnFacts(prospect, day) /\ InferenceNeverHelps(prospect, day)
    BY <2>1, <2>2, HighRests, Inference
  <2>4. \A later \in Ages : later > day => AgingNeverPromotes(prospect, day, later)
    BY <2>1, <2>2, Aging
  <2> QED BY <2>3, <2>4 DEF ProspectsHold
<1> QED BY <1>1, <1>2, <1>3

--------------------------------------------------------------------------
(* What the operations compute from the rows they have read.               *)

\* The rows of research_signals, and some of them at their places in the table.
SignalRows ==
    {row \in [prospect : Prospects, finding : Findings, observedOn : Days, superseded : BOOLEAN,
              supersededOn : Days \cup {None}, leftOn : Days \cup {None}] :
        row.supersededOn = None => row.leftOn = None}
FinitePlaces == {D \in SUBSET Nat : IsFiniteSet(D)}
Evidence == UNION {[D -> SignalRows] : D \in FinitePlaces}
Fit == 0..100 \cup {None}

LEMMA EvidenceFactsOf ==
    ASSUME NEW stored \in Evidence
    PROVE  /\ DOMAIN stored \subseteq Nat /\ IsFiniteSet(DOMAIN stored)
           /\ \A i \in DOMAIN stored :
                 /\ stored[i] \in SignalRows /\ stored[i].finding \in Findings
                 /\ stored[i].observedOn \in Nat /\ stored[i].superseded \in BOOLEAN
                 /\ stored[i].finding.classification \in Bases
                 /\ stored[i].finding.confidence \in 0..100
                 /\ stored[i].finding.classification = "INFERRED" =>
                      stored[i].finding.confidence <= 80
<1>1. PICK D \in FinitePlaces : stored \in [D -> SignalRows]
  BY DEF Evidence
<1>2. DOMAIN stored \subseteq Nat /\ IsFiniteSet(DOMAIN stored)
  BY <1>1 DEF FinitePlaces
<1>3. \A i \in DOMAIN stored : stored[i] \in SignalRows
  BY <1>1
<1>4. \A row \in SignalRows :
        row.finding \in Findings /\ row.observedOn \in Nat /\ row.superseded \in BOOLEAN
  BY OpportunityConstants DEF SignalRows
<1> QED BY <1>2, <1>3, <1>4, OpportunityConstants

LEMMA NoEvidence == << >> \in Evidence
<1>1. {} \in FinitePlaces
  BY FS_EmptySet DEF FinitePlaces
<1>2. << >> \in [{} -> SignalRows]
  OBVIOUS
<1> QED BY <1>1, <1>2 DEF Evidence

LEMMA ListIsEvidence ==
    ASSUME NEW p, signals \in Seq(SignalRows)
    PROVE  /\ ListByProspect(p) \in Evidence
           /\ \A i \in DOMAIN ListByProspect(p) :
                 /\ i \in DOMAIN signals /\ ListByProspect(p)[i] = signals[i]
                 /\ signals[i].prospect = p /\ signals[i].leftOn = None
<1> DEFINE places == {i \in DOMAIN signals :
                        signals[i].prospect = p /\ signals[i].supersededOn = None}
<1>1. DOMAIN signals = 1..Len(signals) /\ Len(signals) \in Nat
  OBVIOUS
<1>2. IsFiniteSet(DOMAIN signals)
  BY <1>1, FS_Interval
<1>3. places \in FinitePlaces
  BY <1>1, <1>2, FS_Subset DEF FinitePlaces
<1>4. ListByProspect(p) \in [places -> SignalRows]
  BY DEF ListByProspect
<1>5. ListByProspect(p) \in Evidence
  BY <1>3, <1>4 DEF Evidence
<1>6. \A i \in DOMAIN ListByProspect(p) :
        /\ i \in DOMAIN signals /\ ListByProspect(p)[i] = signals[i]
        /\ signals[i].prospect = p /\ signals[i].leftOn = None
  <2>1. \A i \in DOMAIN signals : signals[i] \in SignalRows
    OBVIOUS
  <2> QED BY <2>1 DEF ListByProspect, SignalRows
<1> QED BY <1>5, <1>6

\* Halving an inference of at most 80 leaves it below what counts as a problem.
LEMMA ScoringSignals ==
    ASSUME NEW stored \in Evidence
    PROVE  LET signs == ToScoringSignals(stored)
           IN  /\ Scorable(signs)
               /\ DOMAIN signs = {i \in DOMAIN stored : IsClaim(stored[i])}
               /\ \A i \in DOMAIN signs :
                     /\ signs[i].observedOn = stored[i].observedOn
                     /\ signs[i].superseded = stored[i].superseded
                     /\ stored[i].finding.classification # "OBSERVED" => signs[i].confidence <= 40
<1> DEFINE signs == ToScoringSignals(stored)
<1>1. DOMAIN signs = {i \in DOMAIN stored : IsClaim(stored[i])}
  BY DEF ToScoringSignals
<1>2. DOMAIN signs \subseteq Nat /\ IsFiniteSet(DOMAIN signs)
  BY <1>1, EvidenceFactsOf, FS_Subset
<1>3. ASSUME NEW i \in DOMAIN signs
      PROVE  /\ signs[i].confidence \in 0..100
             /\ signs[i].observedOn = stored[i].observedOn
             /\ signs[i].superseded = stored[i].superseded
             /\ stored[i].finding.classification # "OBSERVED" => signs[i].confidence <= 40
  <2>1. i \in DOMAIN stored /\ stored[i].finding.classification \in {"OBSERVED", "INFERRED"}
    BY <1>1, EvidenceFactsOf DEF IsClaim, Bases
  <2>2. signs[i] = [confidence |-> IF stored[i].finding.classification = "INFERRED"
                                   THEN Round(stored[i].finding.confidence, 2)
                                   ELSE stored[i].finding.confidence,
                    observedOn |-> stored[i].observedOn, superseded |-> stored[i].superseded]
    BY <1>1, <1>3 DEF ToScoringSignals
  <2> DEFINE c == stored[i].finding.confidence
  <2>3. c \in 0..100 /\ (stored[i].finding.classification = "INFERRED" => c <= 80)
    BY <2>1, EvidenceFactsOf
  <2> HIDE DEF c
  <2>4. Round(c, 2) \in 0..100 /\ (c <= 80 => Round(c, 2) <= 40)
    BY <2>3 DEF Round
  <2> QED BY <2>1, <2>2, <2>3, <2>4 DEF c
<1>4. \A i \in DOMAIN signs : signs[i].observedOn \in Int /\ signs[i].superseded \in BOOLEAN
  BY <1>1, <1>3, EvidenceFactsOf
<1>5. Scorable(signs)
  BY <1>2, <1>3, <1>4 DEF Scorable
<1> QED BY <1>1, <1>3, <1>5

LEMMA OfferFacts ==
    ASSUME NEW stored \in Evidence
    PROVE  /\ SuggestOffer(stored) \in Fit
           /\ SuggestOffer(stored) # None =>
                 \E r \in Range(stored) : IsClaim(r) /\ r.finding.matches
<1> DEFINE matched == {i \in DOMAIN stored : /\ IsClaim(stored[i]) /\ ~stored[i].superseded
                                            /\ stored[i].finding.matches}
           n == Cardinality(matched)
           points == {point \in matched \X (1..100) :
                        point[2] <= stored[point[1]].finding.confidence}
           total == SumOfConfidence(stored, matched)
<1>1. IsFiniteSet(matched)
  BY EvidenceFactsOf, FS_Subset
<1>2. CASE matched = {}
  BY <1>2 DEF SuggestOffer, Fit
<1>3. CASE matched # {}
  <2>1. n \in Nat \ {0}
    BY <1>1, <1>3, FS_CardinalityType, FS_EmptySet
  <2>2. IsFiniteSet(1..100)
    <3> DEFINE hundred == 100
    <3>1. hundred \in Int
      OBVIOUS
    <3> HIDE DEF hundred
    <3>2. IsFiniteSet(1..hundred)
      BY <3>1, FS_Interval
    <3> QED BY <3>2 DEF hundred
  <2>3. IsFiniteSet(matched \X (1..100))
    BY <1>1, <2>2, FS_Product
  <2>4. IsFiniteSet(points)
    BY <2>3, FS_Subset
  <2>5. total \in Nat
    BY <2>4, FS_CardinalityType DEF SumOfConfidence
  <2>6. SuggestOffer(stored) = AtMost(100, Round(total * (n + 3), 4 * n))
    BY <1>3 DEF SuggestOffer
  <2> HIDE DEF n, total
  <2>7. total * (n + 3) \in Nat /\ 4 * n \in Nat \ {0}
    BY <2>1, <2>5, ProductIsNat
  <2>8. SuggestOffer(stored) \in 0..100
    <3>1. Round(total * (n + 3), 4 * n) \in Nat
      BY <2>7, RoundIsNat
    <3>2. \A x \in Nat : AtMost(100, x) \in 0..100
      BY DEF AtMost
    <3> QED BY <2>6, <3>1, <3>2
  <2>9. \E r \in Range(stored) : IsClaim(r) /\ r.finding.matches
    BY <1>3 DEF Range
  <2> QED BY <2>8, <2>9 DEF Fit
<1> QED BY <1>2, <1>3

\* Of a case of which only signals and offer are known, at most 45 points are earned.
LEMMA NeutralScore ==
    ASSUME NEW fit \in Fit, NEW stored \in Evidence, NEW today \in Int
    PROVE  LET s == ScoreProspect(ScoringInput(fit, stored), today)
           IN  /\ s.band # "HIGH"
               /\ "OBSERVED" \notin ClassesOf(stored) =>
                     /\ s.factors.visibleProblem.points = 0
                     /\ s.factors.evidenceQuality.points = 0
<1> DEFINE input == ScoringInput(fit, stored)
           signs == ToScoringSignals(stored)
           fs == FactorScores(input, today)
<1>1. /\ input.icp = [check \in 1..3 |-> Unknown] /\ input.abilityToPay = Unknown
      /\ input.urgency = Unknown /\ input.contact = [channels |-> 0, unsubscribed |-> FALSE]
      /\ input.serviceFit = (IF fit = None THEN Unknown ELSE [value |-> fit, basis |-> "OBSERVED"])
      /\ input.signals = signs
  BY DEF ScoringInput
<1>2. Scorable(signs)
  BY ScoringSignals
<1>3. Described(input)
  <2> HIDE DEF input, signs
  <2>1. \A values : Unknown \in ClaimsOver(values)
    BY DEF Unknown, ClaimsOver, Bases
  <2>2. input.serviceFit \in ClaimsOver(0..100)
    BY <1>1, <2>1 DEF ClaimsOver, Bases, Fit
  <2> QED BY <1>1, <1>2, <2>1, <2>2 DEF Described
<1> HIDE DEF input, signs
<1>4. AllFit(fs)
  BY <1>3, FactorScoresFit
<1>5. /\ fs.icpFit.points = 0
      /\ fs.abilityToPay.points = 0 /\ fs.urgency.points = 0 /\ fs.contactability.points = 0
  <2>1. fs.icpFit.basis = "UNKNOWN"
    <3>1. \A i \in DOMAIN input.icp : input.icp[i].basis = "UNKNOWN"
      BY <1>1 DEF Unknown
    <3>2. {i \in DOMAIN input.icp : input.icp[i].basis # "UNKNOWN"} = {}
      BY <3>1
    <3>3. fs.icpFit = IcpFit(input.icp)
      BY DEF FactorScores
    <3> QED BY <3>2, <3>3 DEF IcpFit, FactorScore
  <2>2. fs.abilityToPay.basis = "UNKNOWN" /\ fs.urgency.basis = "UNKNOWN"
    BY <1>1 DEF FactorScores, FactorScore, Unknown
  <2>3. fs.contactability = FactorScore("contactability", 0, 3, "OBSERVED")
    BY <1>1 DEF FactorScores, Contactability
  <2>4. fs.contactability.points = 0
    BY <2>3, FactorScoreFacts, FactorNames
  <2> QED BY <1>4, <2>1, <2>2, <2>4 DEF AllFit, Scored
<1>6. /\ fs.visibleProblem.points \in 0..20 /\ fs.serviceFit.points \in 0..15
      /\ fs.evidenceQuality.points \in 0..10
  BY <1>4 DEF AllFit, Scored, FACTOR_WEIGHTS
<1>7. Merit(fs) + fs.contactability.points <= 45 /\ Merit(fs) + fs.contactability.points \in Nat
  BY <1>5, <1>6 DEF Merit
<1>8. ScoreProspect(input, today).band # "HIGH"
  BY <1>1, <1>3, <1>7, ScoreShape DEF BandFor, AtMost
<1>9. ASSUME "OBSERVED" \notin ClassesOf(stored)
      PROVE  fs.visibleProblem.points = 0 /\ fs.evidenceQuality.points = 0
  <2>1. \A i \in DOMAIN signs : signs[i].confidence <= 40 /\ signs[i].confidence \in Nat
    <3>1. \A i \in DOMAIN signs :
            i \in DOMAIN stored /\ stored[i].finding.classification # "OBSERVED"
      BY <1>9, ScoringSignals DEF ClassesOf, Range, signs
    <3>2. \A i \in DOMAIN signs :
            stored[i].finding.classification # "OBSERVED" => signs[i].confidence <= 40
      BY ScoringSignals DEF signs
    <3>3. \A i \in DOMAIN signs : signs[i].confidence \in Nat
      BY <1>2 DEF Scorable
    <3> QED BY <3>1, <3>2, <3>3
  <2>2. Problems(signs) = {} /\ {i \in LiveSignals(signs) : signs[i].confidence >= 70} = {}
    BY <2>1 DEF Problems, LiveSignals
  <2>3. fs.visibleProblem.points = 0
    <3>1. fs.visibleProblem = FactorScore("visibleProblem", 0, 1, "UNKNOWN")
      BY <1>1, <1>2, <2>2, VisibleProblemFacts DEF FactorScores
    <3> QED BY <3>1, FactorScoreFacts, FactorNames
  <2>4. fs.evidenceQuality.points = 0
    <3>1. fs.evidenceQuality =
            FactorScore("evidenceQuality", 0, 3,
                        IF LiveSignals(signs) = {} THEN "UNKNOWN" ELSE "OBSERVED")
      BY <1>1, <2>2, FS_EmptySet DEF FactorScores, EvidenceQuality
    <3> QED BY <3>1, FactorScoreFacts, FactorNames
  <2> QED BY <2>3, <2>4
<1>10. ScoreProspect(input, today).factors = fs
  BY <1>3, ScoreShape
<1> QED BY <1>8, <1>9, <1>10 DEF input

\* A row found fresh was observed within SIGNAL_FRESH_DAYS.
LEMMA FreshFacts ==
    ASSUME NEW stored \in Evidence, NEW today \in Int,
           ClassifyStaleness(ToScoringSignals(stored), today) = "FRESH"
    PROVE  \E r \in Range(stored) : IsClaim(r) /\ today - r.observedOn <= SIGNAL_FRESH_DAYS
<1> DEFINE signs == ToScoringSignals(stored)
           Age(i) == IF signs[i].observedOn > today THEN 0 ELSE today - signs[i].observedOn
<1>1. /\ Scorable(signs)
      /\ DOMAIN signs = {i \in DOMAIN stored : IsClaim(stored[i])}
      /\ \A i \in DOMAIN signs : signs[i].observedOn = stored[i].observedOn
  BY ScoringSignals
<1> HIDE DEF signs
<1>2. \E a \in {Age(i) : i \in LiveSignals(signs)} : Decay(a) = DecaySpan
  BY DEF ClassifyStaleness, signs
<1>3. PICK i \in LiveSignals(signs) : Decay(Age(i)) = DecaySpan
  BY <1>2
<1>4. i \in DOMAIN signs /\ signs[i].observedOn \in Int
  BY <1>1 DEF LiveSignals, Scorable
<1>5. Age(i) <= SIGNAL_FRESH_DAYS
  BY <1>3, <1>4 DEF Decay, DecaySpan, SIGNAL_FRESH_DAYS, SIGNAL_MAX_AGE_DAYS
<1>6. today - signs[i].observedOn <= SIGNAL_FRESH_DAYS
  BY <1>4, <1>5 DEF SIGNAL_FRESH_DAYS
<1> QED BY <1>1, <1>4, <1>6 DEF Range

--------------------------------------------------------------------------
(* The inductive invariant of the calls.                                   *)

Steps == {"idle", "find", "signals", "write", "count", "told"}
Opportunity ==
    [state : {"NEW"}, fit : Fit, staleness : {"FRESH", "STALE", "SUPERSEDED"},
     computedOn : Days \cup {None}, basedOn : Evidence, checked : Evidence, on : Days]
Asked ==
    [pc : Steps, op : Ops, prospect : Prospects, on : Days, fit : Fit,
     stored : Evidence, created : Nat \cup {None},
     actioned : [useful : Nat, all : Nat] \cup {None}, before : Nat]

ResearchRun ==
    [prospect : Prospects \cup {None}, step : {"ended", "asking", "saving"}, runs : Nat, on : Days]

ScoringTyped ==
    /\ date \in Days
    /\ signals \in Seq(SignalRows)
    /\ research \in ResearchRun
    /\ DOMAIN opportunities \subseteq Prospects
    /\ opportunities \in [DOMAIN opportunities -> Opportunity]
    /\ DOMAIN scores \subseteq DOMAIN opportunities
    /\ DOMAIN feedback \subseteq DOMAIN opportunities
    /\ query \in [Clients -> Asked \cup {IdleQuery}]
    /\ \A c \in Clients : query[c].pc # "idle" => query[c] \in Asked

\* An offer follows from what it was based on, and so does a staleness.
OpportunityIsDerived(o) ==
    /\ o.on <= date
    /\ o.fit = SuggestOffer(o.basedOn)
    /\ o.computedOn # None =>
          /\ o.computedOn <= date
          /\ o.staleness = ClassifyStaleness(ToScoringSignals(o.checked), o.computedOn)

OffersAreDerived == \A p \in DOMAIN opportunities : OpportunityIsDerived(opportunities[p])

\* A score is that of some offer and the rows it names, and has been made.
ScoreIsDerived(s) ==
    /\ s.evidence \in Evidence /\ s.scoredOn \in Days /\ s.scoredOn <= date
    /\ \E fit \in Fit : s.score = ScoreProspect(ScoringInput(fit, s.evidence), s.scoredOn)

ScoresAreDerived == \A p \in DOMAIN scores : ScoreIsDerived(scores[p])

\* A call started before today; past its first query it has the row, past its second
\* the signals that were active then.
CallIsSound(q) ==
    /\ q.pc # "idle" => q.on <= date
    /\ q.pc = "find" => q.op \in {"score", "classify", "feedback"}
    /\ q.pc \in {"signals", "write"} /\ q.op # "create" => q.prospect \in DOMAIN opportunities
    /\ q.pc = "write" /\ q.op # "feedback" => Backed(signals, q.prospect, q.stored, q.on)
    /\ q.pc \in {"count", "told"} => q.before <= Cardinality(DOMAIN opportunities)

CallsAreSound == \A c \in Clients : CallIsSound(query[c])

\* The counts of a summary, each as soon as it has been answered.
CountIsBracketed(q) ==
    /\ q.pc \in {"count", "told"} /\ q.created # None =>
          q.before <= q.created /\ q.created <= Cardinality(DOMAIN opportunities)
    /\ q.pc \in {"count", "told"} /\ q.actioned # None =>
          /\ q.actioned.all <= Cardinality(DOMAIN opportunities)
          /\ q.actioned.useful <= q.actioned.all
    /\ q.pc = "told" => q.created \in Nat /\ q.before <= q.created
                        /\ q.created <= Cardinality(DOMAIN opportunities)
                        /\ q.actioned \in [useful : Nat, all : Nat]
                        /\ q.actioned.all <= Cardinality(DOMAIN opportunities)
                        /\ q.actioned.useful <= q.actioned.all

CountsAreBracketed == \A c \in Clients : CountIsBracketed(query[c])

OpportunitiesIInv ==
    /\ ScoringTyped /\ OffersAreDerived /\ ScoresAreDerived /\ EvidenceWasActive
    /\ CallsAreSound /\ CountsAreBracketed

--------------------------------------------------------------------------
(* Every step keeps the types.                                             *)

LEMMA InitTyped == OpportunitiesInit => ScoringTyped
<1> SUFFICES ASSUME OpportunitiesInit PROVE ScoringTyped
  OBVIOUS
<1>1. \E d \in Days : \A e \in Days : d <= e
  BY OpportunityConstants, LeastExists
<1>2. date \in Days
  BY <1>1 DEF OpportunitiesInit
<1>3. query \in [Clients -> Asked \cup {IdleQuery}] /\ \A c \in Clients : query[c].pc = "idle"
  BY DEF OpportunitiesInit, IdleQuery
<1>4. /\ opportunities \in [DOMAIN opportunities -> Opportunity]
      /\ DOMAIN opportunities = {} /\ DOMAIN scores = {} /\ DOMAIN feedback = {}
  BY DEF OpportunitiesInit
<1>5. signals \in Seq(SignalRows)
  BY DEF OpportunitiesInit
<1>6. research \in ResearchRun
  <2>1. research = [prospect |-> None, step |-> "ended", runs |-> 0, on |-> date]
    BY DEF OpportunitiesInit
  <2> QED BY <1>2, <2>1 DEF ResearchRun
<1> QED BY <1>2, <1>3, <1>4, <1>5, <1>6 DEF OpportunitiesInit, ScoringTyped

\* A row a research run replaces.
Replaced(row, ranOn, today) ==
    [row EXCEPT !.superseded = TRUE, !.supersededOn = ranOn, !.leftOn = today]

LEMMA ReplacedIsRow ==
    ASSUME NEW row \in SignalRows, NEW ranOn \in Days, NEW today \in Days
    PROVE  LET new == Replaced(row, ranOn, today)
           IN  /\ new \in SignalRows
               /\ new.finding = row.finding /\ new.prospect = row.prospect
               /\ new.observedOn = row.observedOn /\ new.leftOn = today
<1> DEFINE new == Replaced(row, ranOn, today)
           Shape == [prospect : Prospects, finding : Findings, observedOn : Days,
                     superseded : BOOLEAN, supersededOn : Days \cup {None},
                     leftOn : Days \cup {None}]
<1>1. row \in Shape
  BY DEF SignalRows
<1>2. new \in Shape
  BY <1>1 DEF Replaced
<1>3. /\ new.finding = row.finding /\ new.prospect = row.prospect
      /\ new.observedOn = row.observedOn /\ new.leftOn = today /\ new.supersededOn = ranOn
  BY <1>1 DEF Replaced
<1>4. ranOn # None
  BY OpportunityConstants
<1> HIDE DEF new
<1>5. new \in SignalRows
  BY <1>2, <1>3, <1>4 DEF SignalRows
<1> QED BY <1>3, <1>5 DEF new

LEMMA SupersedeFacts ==
    ASSUME NEW p \in Prospects, SupersedePrevious(p)
    PROVE  /\ DOMAIN signals' = DOMAIN signals
           /\ \A i \in DOMAIN signals :
                 signals'[i] = signals[i] \/ signals'[i] = Replaced(signals[i], research.on, date)
           /\ research' = [research EXCEPT !.step = "saving"]
           /\ UNCHANGED <<date, opportunities, scores, feedback, query, queries>>
<1>1. signals' = [i \in DOMAIN signals |->
                    IF signals[i].prospect = p /\ signals[i].supersededOn = None
                    THEN Replaced(signals[i], research.on, date) ELSE signals[i]]
  BY Zenon DEF SupersedePrevious, Replaced
<1>2. research' = [research EXCEPT !.step = "saving"]
      /\ UNCHANGED <<date, opportunities, scores, feedback, query, queries>>
  BY Zenon DEF SupersedePrevious
<1> QED BY <1>1, <1>2

\* A research run, and a day.
LEMMA ResearchIsTyped ==
    ASSUME ScoringTyped,
           \/ DayPasses \/ EndResearch
           \/ \E p \in Prospects : StartResearch(p)
           \/ \E p \in Prospects : SupersedePrevious(p)
           \/ \E finding \in Findings : SaveSignal(finding)
    PROVE  ScoringTyped'
<1>1. CASE DayPasses
  BY <1>1 DEF DayPasses, ScoringTyped
<1>2. CASE EndResearch
  <2>1. research' \in ResearchRun
    BY <1>2 DEF EndResearch, ScoringTyped, ResearchRun
  <2> QED BY <1>2, <2>1 DEF EndResearch, ScoringTyped
<1>3. CASE \E p \in Prospects : SupersedePrevious(p)
  <2>1. PICK p \in Prospects : SupersedePrevious(p)
    BY <1>3
  <2>2. /\ DOMAIN signals = 1..Len(signals) /\ Len(signals) \in Nat
        /\ DOMAIN signals' = DOMAIN signals
        /\ \A i \in DOMAIN signals :
              signals'[i] = signals[i] \/ signals'[i] = Replaced(signals[i], research.on, date)
    BY <2>1, SupersedeFacts DEF ScoringTyped
  <2>3. \A i \in DOMAIN signals : signals'[i] \in SignalRows
    <3>1. \A i \in DOMAIN signals : signals[i] \in SignalRows
      BY DEF ScoringTyped
    <3>2. research.on \in Days /\ date \in Days
      BY DEF ScoringTyped, ResearchRun
    <3> QED BY <2>2, <3>1, <3>2, ReplacedIsRow
  <2>4. signals' \in Seq(SignalRows)
    <3>1. signals' = [i \in DOMAIN signals |-> signals'[i]]
      BY <2>1 DEF SupersedePrevious
    <3>2. signals' \in [1..Len(signals) -> SignalRows]
      BY <2>2, <2>3, <3>1
    <3> QED BY <2>2, <3>2
  <2>5. research' = [research EXCEPT !.step = "saving"]
        /\ UNCHANGED <<date, opportunities, scores, feedback, query, queries>>
    BY <2>1, SupersedeFacts
  <2>6. research' \in ResearchRun
    BY <2>5 DEF ScoringTyped, ResearchRun
  <2> QED BY <2>4, <2>5, <2>6 DEF ScoringTyped
<1>4. CASE \E finding \in Findings : SaveSignal(finding)
  <2>1. PICK finding \in Findings : SaveSignal(finding)
    BY <1>4
  <2>2. [prospect |-> research.prospect, finding |-> finding, observedOn |-> research.on,
         superseded |-> FALSE, supersededOn |-> None, leftOn |-> None] \in SignalRows
    BY <2>1 DEF SaveSignal, ScoringTyped, SignalRows, ResearchRun
  <2>3. signals' \in Seq(SignalRows)
    BY <2>1, <2>2 DEF SaveSignal, ScoringTyped
  <2> QED BY <2>1, <2>3 DEF SaveSignal, ScoringTyped
<1>5. CASE \E p \in Prospects : StartResearch(p)
  BY <1>5 DEF StartResearch, ScoringTyped, ResearchRun
<1> QED BY <1>1, <1>2, <1>3, <1>4, <1>5

\* A call that only reads.
LEMMA ReadingIsTyped ==
    ASSUME ScoringTyped, NEW c \in Clients,
           \/ \E op \in Ops, p \in Prospects : AskOpportunity(c, op, p)
           \/ FindOpportunity(c) \/ ReadSignals(c)
           \/ CountOpportunities(c) \/ CountFeedback(c)
    PROVE  ScoringTyped'
<1>1. IsFiniteSet(DOMAIN opportunities) /\ IsFiniteSet(DOMAIN feedback)
  BY OpportunityConstants, FS_Subset DEF ScoringTyped
<1>2. Cardinality(DOMAIN opportunities) \in Nat /\ Cardinality(DOMAIN feedback) \in Nat
      /\ Cardinality({p \in DOMAIN feedback : feedback[p]}) \in Nat
  <2>1. IsFiniteSet({p \in DOMAIN feedback : feedback[p]})
    BY <1>1, FS_Subset
  <2> QED BY <1>1, <2>1, FS_CardinalityType
<1>3. SUFFICES /\ UNCHANGED <<date, signals, research, opportunities, scores, feedback>>
               /\ query' \in [Clients -> Asked \cup {IdleQuery}]
               /\ \A k \in Clients : query'[k].pc # "idle" => query'[k] \in Asked
  BY DEF ScoringTyped
<1>4. UNCHANGED <<date, signals, research, opportunities, scores, feedback>>
  BY DEF AskOpportunity, FindOpportunity, ReadSignals, CountOpportunities, CountFeedback
<1>5. /\ query' = [query EXCEPT ![c] = query'[c]]
      /\ query'[c] \in Asked \cup {IdleQuery} /\ (query'[c].pc # "idle" => query'[c] \in Asked)
  <2>1. CASE \E op \in Ops, p \in Prospects : AskOpportunity(c, op, p)
    <3>1. PICK op \in Ops, p \in Prospects : AskOpportunity(c, op, p)
      BY <2>1
    <3> DEFINE first == CASE op = "create" -> "signals"
                          [] op = "summary" -> "count"
                          [] op \in {"score", "classify", "feedback"} -> "find"
               before == IF op = "summary" THEN Cardinality(DOMAIN opportunities) ELSE 0
               asked == [pc |-> first, op |-> op, prospect |-> p,
                         on |-> date, fit |-> None, stored |-> << >>,
                         created |-> None, actioned |-> None, before |-> before]
    <3>2. query' = [query EXCEPT ![c] = asked]
      BY <3>1 DEF AskOpportunity
    <3>3. asked \in Asked
      <4>1. first \in Steps /\ before \in Nat
        BY <1>2 DEF Ops, Steps
      <4> QED BY <4>1, NoEvidence DEF Asked, Fit, ScoringTyped
    <3> HIDE DEF asked
    <3> QED BY <3>2, <3>3 DEF ScoringTyped
  <2>2. CASE FindOpportunity(c)
    <3>1. query[c] \in Asked
      BY <2>2 DEF FindOpportunity, ScoringTyped
    <3>2. CASE query[c].prospect \notin DOMAIN opportunities
      <4>1. query' = [query EXCEPT ![c] = IdleQuery]
        BY <2>2, <3>2 DEF FindOpportunity
      <4> QED BY <4>1 DEF IdleQuery, ScoringTyped
    <3>3. CASE query[c].prospect \in DOMAIN opportunities
      <4> DEFINE next == IF query[c].op = "feedback" THEN "write" ELSE "signals"
                 q == [query[c] EXCEPT !.fit = opportunities[query[c].prospect].fit, !.pc = next]
      <4>1. query' = [query EXCEPT ![c] = q]
        BY <2>2, <3>3 DEF FindOpportunity, ScoringTyped
      <4>2. opportunities[query[c].prospect].fit \in Fit
        BY <3>3 DEF ScoringTyped, Opportunity
      <4>3. q \in Asked
        BY <3>1, <4>2 DEF Asked, Steps
      <4> HIDE DEF q
      <4> QED BY <4>1, <4>3 DEF ScoringTyped
    <3> QED BY <3>2, <3>3
  <2>3. CASE ReadSignals(c)
    <3> DEFINE q == [query[c] EXCEPT !.stored = ListByProspect(query[c].prospect), !.pc = "write"]
    <3>1. query[c] \in Asked
      BY <2>3 DEF ReadSignals, ScoringTyped
    <3>2. query' = [query EXCEPT ![c] = q]
      BY <2>3 DEF ReadSignals, ScoringTyped
    <3>3. ListByProspect(query[c].prospect) \in Evidence
      BY ListIsEvidence DEF ScoringTyped
    <3>4. q \in Asked
      BY <3>1, <3>3 DEF Asked, Steps
    <3> HIDE DEF q
    <3> QED BY <3>2, <3>4 DEF ScoringTyped
  <2>4. CASE CountOpportunities(c)
    <3> DEFINE q == [query[c] EXCEPT !.created = Cardinality(DOMAIN opportunities),
                       !.pc = IF query[c].actioned # None THEN "told" ELSE query[c].pc]
    <3>1. query[c] \in Asked
      BY <2>4 DEF CountOpportunities, ScoringTyped
    <3>2. query' = [query EXCEPT ![c] = q]
      BY <2>4 DEF CountOpportunities, ScoringTyped
    <3>3. q \in Asked
      BY <1>2, <3>1 DEF Asked, Steps
    <3> HIDE DEF q
    <3> QED BY <3>2, <3>3 DEF ScoringTyped
  <2>5. CASE CountFeedback(c)
    <3> DEFINE count == [useful |-> Cardinality({p \in DOMAIN feedback : feedback[p]}),
                         all |-> Cardinality(DOMAIN feedback)]
               q == [query[c] EXCEPT !.actioned = count,
                       !.pc = IF query[c].created # None THEN "told" ELSE query[c].pc]
    <3>1. query[c] \in Asked
      BY <2>5 DEF CountFeedback, ScoringTyped
    <3>2. query' = [query EXCEPT ![c] = q]
      BY <2>5 DEF CountFeedback, ScoringTyped
    <3>3. count \in [useful : Nat, all : Nat]
      BY <1>2
    <3> HIDE DEF count
    <3>4. q \in Asked
      BY <3>1, <3>3 DEF Asked, Steps
    <3> HIDE DEF q
    <3> QED BY <3>2, <3>4 DEF ScoringTyped
  <2> QED BY <2>1, <2>2, <2>3, <2>4, <2>5
<1> QED BY <1>4, <1>5 DEF ScoringTyped

\* A call that writes.
LEMMA WritingIsTyped ==
    ASSUME ScoringTyped, CallsAreSound, NEW c \in Clients,
           \/ CreateOpportunity(c) \/ ScoreOpportunity(c) \/ ClassifyOpportunityStaleness(c)
           \/ \E useful \in BOOLEAN : RecordFeedback(c, useful)
    PROVE  ScoringTyped'
<1> DEFINE q == query[c]
           p == query[c].prospect
<1>1. q \in Asked /\ q.pc = "write" /\ query' = [query EXCEPT ![c] = IdleQuery]
  BY DEF CreateOpportunity, ScoreOpportunity, ClassifyOpportunityStaleness, RecordFeedback,
         Writes, ScoringTyped
<1>2. p \in Prospects /\ q.stored \in Evidence /\ q.on \in Days
  BY <1>1 DEF Asked
<1>3. /\ query' \in [Clients -> Asked \cup {IdleQuery}]
      /\ \A k \in Clients : query'[k].pc # "idle" => query'[k] \in Asked
  BY <1>1 DEF ScoringTyped, IdleQuery
<1>4. q.op # "create" => p \in DOMAIN opportunities
  BY <1>1 DEF CallsAreSound, CallIsSound
<1>5. CASE CreateOpportunity(c)
  <2> DEFINE o == [state |-> "NEW", fit |-> SuggestOffer(q.stored), staleness |-> "FRESH",
                   computedOn |-> None, basedOn |-> q.stored, checked |-> q.stored, on |-> q.on]
  <2>1. o \in Opportunity
    BY <1>2, OfferFacts DEF Opportunity
  <2>2. opportunities' = IF p \in DOMAIN opportunities THEN opportunities
                         ELSE Upserted(opportunities, p, o)
    BY <1>5 DEF CreateOpportunity
  <2> HIDE DEF o
  <2>3. /\ DOMAIN opportunities' = DOMAIN opportunities \cup {p}
        /\ opportunities' \in [DOMAIN opportunities' -> Opportunity]
    BY <2>1, <2>2 DEF Upserted, ScoringTyped
  <2> QED BY <1>2, <1>3, <1>5, <2>3 DEF CreateOpportunity, ScoringTyped
<1>6. CASE ScoreOpportunity(c)
  <2>1. p \in DOMAIN opportunities
    BY <1>4, <1>6 DEF ScoreOpportunity, Writes
  <2>2. DOMAIN scores' = DOMAIN scores \cup {p}
    BY <1>6 DEF ScoreOpportunity, Upserted
  <2> QED BY <1>3, <1>6, <2>1, <2>2 DEF ScoreOpportunity, ScoringTyped
<1>7. CASE ClassifyOpportunityStaleness(c)
  <2> DEFINE level == ClassifyStaleness(ToScoringSignals(q.stored), q.on)
             o == [opportunities[p] EXCEPT !.staleness = level, !.computedOn = q.on,
                                           !.checked = q.stored]
  <2>1. p \in DOMAIN opportunities /\ opportunities[p] \in Opportunity
    BY <1>4, <1>7 DEF ClassifyOpportunityStaleness, Writes, ScoringTyped
  <2>2. level \in {"FRESH", "STALE", "SUPERSEDED"}
    BY DEF ClassifyStaleness
  <2>3. opportunities' = [opportunities EXCEPT ![p] = o]
    BY <1>7, <2>1 DEF ClassifyOpportunityStaleness, ScoringTyped
  <2> HIDE DEF level
  <2>4. o \in Opportunity
    BY <1>2, <2>1, <2>2 DEF Opportunity
  <2> HIDE DEF o
  <2>5. /\ DOMAIN opportunities' = DOMAIN opportunities
        /\ opportunities' \in [DOMAIN opportunities' -> Opportunity]
    BY <2>1, <2>3, <2>4 DEF ScoringTyped
  <2> QED BY <1>3, <1>7, <2>5 DEF ClassifyOpportunityStaleness, ScoringTyped
<1>8. CASE \E useful \in BOOLEAN : RecordFeedback(c, useful)
  <2>1. p \in DOMAIN opportunities
    BY <1>4, <1>8 DEF RecordFeedback, Writes
  <2>2. DOMAIN feedback' = DOMAIN feedback \cup {p}
    BY <1>8 DEF RecordFeedback, Upserted
  <2> QED BY <1>3, <1>8, <2>1, <2>2 DEF RecordFeedback, ScoringTyped
<1> QED BY <1>5, <1>6, <1>7, <1>8

LEMMA TypedIsKept ==
    ASSUME ScoringTyped, CallsAreSound, [OpportunitiesNext]_opportunityVars
    PROVE  ScoringTyped'
<1>1. CASE UNCHANGED opportunityVars
  BY <1>1 DEF opportunityVars, ScoringTyped
<1>2. CASE OpportunitiesNext
  BY <1>2, ResearchIsTyped, ReadingIsTyped, WritingIsTyped DEF OpportunitiesNext
<1> QED BY <1>1, <1>2

--------------------------------------------------------------------------
(* Rows are replaced, never removed, and time goes forward.                *)

\* The rows of a table are there in a later one, some replaced today.
TableGrows(table, later, today) ==
    \A i \in DOMAIN table :
        /\ i \in DOMAIN later /\ later[i].finding = table[i].finding
        /\ later[i].prospect = table[i].prospect /\ later[i].observedOn = table[i].observedOn
        /\ later[i].leftOn # table[i].leftOn => later[i].leftOn = today

\* What was backed stays so: a row replaced today was not replaced before.
LEMMA BackedIsKept ==
    ASSUME NEW table, NEW later, NEW today \in Days, TableGrows(table, later, today),
           NEW p, NEW stored, NEW since \in Days, since <= today, Backed(table, p, stored, since)
    PROVE  Backed(later, p, stored, since)
<1>1. today >= since
  BY OpportunityConstants
<1> QED BY <1>1 DEF Backed, TableGrows

Grows ==
    /\ date <= date'
    /\ DOMAIN opportunities \subseteq DOMAIN opportunities'
    /\ TableGrows(signals, signals', date)

LEMMA StepGrows ==
    ASSUME ScoringTyped, [OpportunitiesNext]_opportunityVars
    PROVE  Grows
<1>1. date \in Nat
  BY OpportunityConstants DEF ScoringTyped
<1>2. signals' = signals => TableGrows(signals, signals', date)
  BY DEF TableGrows
<1>3. CASE DayPasses
  <2>1. date <= date' /\ opportunities' = opportunities /\ signals' = signals
    BY <1>1, <1>3, OpportunityConstants DEF DayPasses
  <2> QED BY <1>2, <2>1 DEF Grows
<1>4. CASE \E p \in Prospects : SupersedePrevious(p)
  <2>1. PICK p \in Prospects : SupersedePrevious(p)
    BY <1>4
  <2>2. \A i \in DOMAIN signals : signals[i] \in SignalRows
    BY DEF ScoringTyped
  <2>3. research.on \in Days /\ date \in Days
    BY DEF ScoringTyped, ResearchRun
  <2>4. TableGrows(signals, signals', date)
    BY <2>1, <2>2, <2>3, SupersedeFacts, ReplacedIsRow DEF TableGrows
  <2>5. date' = date /\ opportunities' = opportunities
    BY <2>1, SupersedeFacts
  <2> QED BY <1>1, <2>4, <2>5 DEF Grows
<1>5. CASE \E finding \in Findings : SaveSignal(finding)
  <2>1. PICK finding \in Findings : SaveSignal(finding)
    BY <1>5
  <2>2. \A i \in DOMAIN signals : i \in DOMAIN signals' /\ signals'[i] = signals[i]
    BY <2>1 DEF SaveSignal, ScoringTyped
  <2>3. TableGrows(signals, signals', date)
    BY <2>2 DEF TableGrows
  <2> QED BY <1>1, <2>1, <2>3 DEF SaveSignal, Grows
<1>6. CASE EndResearch \/ (\E p \in Prospects : StartResearch(p)) \/ UNCHANGED opportunityVars
  BY <1>1, <1>2, <1>6 DEF EndResearch, StartResearch, opportunityVars, Grows
<1>7. ASSUME NEW c \in Clients,
             \/ \E op \in Ops, p \in Prospects : AskOpportunity(c, op, p)
             \/ FindOpportunity(c) \/ ReadSignals(c)
             \/ CreateOpportunity(c) \/ ScoreOpportunity(c) \/ ClassifyOpportunityStaleness(c)
             \/ \E useful \in BOOLEAN : RecordFeedback(c, useful)
             \/ CountOpportunities(c) \/ CountFeedback(c)
      PROVE  Grows
  <2>1. date' = date /\ signals' = signals
    BY <1>7 DEF AskOpportunity, FindOpportunity, ReadSignals, CreateOpportunity, ScoreOpportunity,
                ClassifyOpportunityStaleness, RecordFeedback, CountOpportunities, CountFeedback
  <2>2. DOMAIN opportunities \subseteq DOMAIN opportunities'
    <3>1. CASE CreateOpportunity(c)
      BY <3>1 DEF CreateOpportunity, Upserted
    <3>2. CASE ClassifyOpportunityStaleness(c)
      BY <3>2 DEF ClassifyOpportunityStaleness
    <3>3. CASE ~CreateOpportunity(c) /\ ~ClassifyOpportunityStaleness(c)
      BY <1>7, <3>3 DEF AskOpportunity, FindOpportunity, ReadSignals, ScoreOpportunity,
                        RecordFeedback, CountOpportunities, CountFeedback
    <3> QED BY <3>1, <3>2, <3>3
  <2> QED BY <1>1, <1>2, <2>1, <2>2 DEF Grows
<1> QED BY <1>3, <1>4, <1>5, <1>6, <1>7 DEF OpportunitiesNext

--------------------------------------------------------------------------
(* Every step keeps the rest of it.                                        *)

LEMMA InitHolds == OpportunitiesInit => OpportunitiesIInv
<1> SUFFICES ASSUME OpportunitiesInit PROVE OpportunitiesIInv
  OBVIOUS
<1>1. ScoringTyped
  BY InitTyped
<1>2. /\ DOMAIN opportunities = {} /\ DOMAIN scores = {}
      /\ \A c \in Clients : query[c] = IdleQuery
  BY DEF OpportunitiesInit
<1>3. OffersAreDerived /\ ScoresAreDerived /\ EvidenceWasActive
  BY <1>2 DEF OffersAreDerived, ScoresAreDerived, EvidenceWasActive
<1>4. CallIsSound(IdleQuery) /\ CountIsBracketed(IdleQuery)
  BY DEF CallIsSound, CountIsBracketed, IdleQuery
<1> QED BY <1>1, <1>2, <1>3, <1>4 DEF OpportunitiesIInv, CallsAreSound, CountsAreBracketed

\* A step that writes no opportunity and no score, and one that may.
Writing(c) == CreateOpportunity(c) \/ ScoreOpportunity(c) \/ ClassifyOpportunityStaleness(c)

LEMMA OtherSteps ==
    ASSUME [OpportunitiesNext]_opportunityVars
    PROVE  \/ \E c \in Clients : Writing(c)
           \/ opportunities' = opportunities /\ scores' = scores
BY DEF OpportunitiesNext, opportunityVars, Writing, StartResearch, SupersedePrevious,
       SaveSignal, EndResearch, AskOpportunity, FindOpportunity, ReadSignals, RecordFeedback,
       CountOpportunities, CountFeedback, DayPasses

LEMMA TimePasses ==
    ASSUME ScoringTyped, ScoringTyped', date <= date', NEW d \in Days, d <= date
    PROVE  d <= date'
BY OpportunityConstants DEF ScoringTyped

\* A written opportunity is derived from what its call had read.
LEMMA OffersKept ==
    ASSUME OpportunitiesIInv, [OpportunitiesNext]_opportunityVars, ScoringTyped', Grows
    PROVE  OffersAreDerived'
<1>1. ASSUME NEW o \in Opportunity, OpportunityIsDerived(o)
      PROVE  o.on <= date' /\ (o.computedOn # None => o.computedOn <= date')
  <2>1. o.on \in Days /\ (o.computedOn # None => o.computedOn \in Days)
    BY DEF Opportunity
  <2> QED BY <1>1, <2>1, TimePasses DEF OpportunityIsDerived, OpportunitiesIInv, Grows
<1>2. ASSUME NEW p \in DOMAIN opportunities, opportunities'[p] = opportunities[p]
      PROVE  OpportunityIsDerived(opportunities[p])'
  <2>1. opportunities[p] \in Opportunity /\ OpportunityIsDerived(opportunities[p])
    BY DEF OpportunitiesIInv, OffersAreDerived, ScoringTyped
  <2>2. /\ opportunities[p].on <= date'
        /\ opportunities[p].computedOn # None => opportunities[p].computedOn <= date'
    BY <1>1, <2>1
  <2> QED BY <1>2, <2>1, <2>2 DEF OpportunityIsDerived
<1> SUFFICES ASSUME NEW p \in DOMAIN opportunities'
             PROVE  OpportunityIsDerived(opportunities[p])'
  BY DEF OffersAreDerived
<1>3. CASE opportunities' = opportunities
  BY <1>2, <1>3
<1>4. ASSUME NEW c \in Clients, Writing(c), opportunities' # opportunities
      PROVE  OpportunityIsDerived(opportunities[p])'
  <2> DEFINE q == query[c]
  <2>1. q \in Asked /\ q.pc = "write"
    BY <1>4 DEF Writing, CreateOpportunity, ScoreOpportunity, ClassifyOpportunityStaleness, Writes,
                OpportunitiesIInv, ScoringTyped
  <2>2. q.on \in Days /\ q.on <= date
    BY <2>1 DEF Asked, OpportunitiesIInv, CallsAreSound, CallIsSound
  <2>3. q.on <= date'
    BY <2>2, TimePasses DEF OpportunitiesIInv, Grows
  <2>4. CASE CreateOpportunity(c)
    <3> DEFINE o == [state |-> "NEW", fit |-> SuggestOffer(q.stored), staleness |-> "FRESH",
                     computedOn |-> None, basedOn |-> q.stored, checked |-> q.stored,
                     on |-> q.on]
    <3>1. opportunities' = Upserted(opportunities, q.prospect, o)
      BY <1>4, <2>4 DEF CreateOpportunity
    <3>2. /\ o.on = q.on /\ o.fit = SuggestOffer(q.stored) /\ o.basedOn = q.stored
          /\ o.computedOn = None
      OBVIOUS
    <3> HIDE DEF o
    <3>3. CASE p = q.prospect
      <4>1. opportunities'[p] = o
        BY <3>1, <3>3 DEF Upserted
      <4> QED BY <2>3, <3>2, <4>1 DEF OpportunityIsDerived
    <3>4. CASE p # q.prospect
      <4>1. p \in DOMAIN opportunities /\ opportunities'[p] = opportunities[p]
        BY <3>1, <3>4 DEF Upserted
      <4> QED BY <1>2, <4>1
    <3> QED BY <3>3, <3>4
  <2>5. CASE ClassifyOpportunityStaleness(c)
    <3> DEFINE level == ClassifyStaleness(ToScoringSignals(q.stored), q.on)
               o == [opportunities[q.prospect] EXCEPT !.staleness = level, !.computedOn = q.on,
                                                      !.checked = q.stored]
    <3>1. q.prospect \in DOMAIN opportunities
      BY <2>1, <2>5 DEF ClassifyOpportunityStaleness, Writes, OpportunitiesIInv, CallsAreSound,
                        CallIsSound
    <3>2. opportunities' = [opportunities EXCEPT ![q.prospect] = o]
      BY <2>5, <3>1 DEF ClassifyOpportunityStaleness, OpportunitiesIInv, ScoringTyped
    <3>3. CASE p = q.prospect
      <4>1. /\ opportunities[p] \in Opportunity /\ OpportunityIsDerived(opportunities[p])
        BY <3>1, <3>3 DEF OpportunitiesIInv, ScoringTyped, OffersAreDerived
      <4>2. opportunities[p].on <= date'
        BY <1>1, <4>1
      <4>3. /\ opportunities'[p].on = opportunities[p].on
            /\ opportunities'[p].fit = opportunities[p].fit
            /\ opportunities'[p].basedOn = opportunities[p].basedOn
            /\ opportunities'[p].computedOn = q.on /\ opportunities'[p].checked = q.stored
            /\ opportunities'[p].staleness = level
        BY <3>1, <3>2, <3>3, <4>1 DEF Opportunity
      <4> HIDE DEF level, o
      <4> QED BY <2>3, <4>1, <4>2, <4>3 DEF OpportunityIsDerived, level
    <3>4. CASE p # q.prospect
      <4>1. p \in DOMAIN opportunities /\ opportunities'[p] = opportunities[p]
        BY <3>1, <3>2, <3>4
      <4> QED BY <1>2, <4>1
    <3> QED BY <3>3, <3>4
  <2>6. CASE ScoreOpportunity(c)
    BY <1>4, <2>6 DEF ScoreOpportunity
  <2> QED BY <1>4, <2>4, <2>5, <2>6 DEF Writing
<1> QED BY <1>3, <1>4, OtherSteps

\* A written score is that of what its call had read.
LEMMA ScoresKept ==
    ASSUME OpportunitiesIInv, [OpportunitiesNext]_opportunityVars, ScoringTyped', Grows
    PROVE  ScoresAreDerived'
<1>1. ASSUME NEW p \in DOMAIN scores, scores'[p] = scores[p]
      PROVE  ScoreIsDerived(scores[p])'
  <2>1. ScoreIsDerived(scores[p])
    BY DEF OpportunitiesIInv, ScoresAreDerived
  <2>2. scores[p].scoredOn <= date'
    BY <2>1, TimePasses DEF ScoreIsDerived, OpportunitiesIInv, Grows
  <2> QED BY <1>1, <2>1, <2>2 DEF ScoreIsDerived
<1> SUFFICES ASSUME NEW p \in DOMAIN scores' PROVE ScoreIsDerived(scores[p])'
  BY DEF ScoresAreDerived
<1>2. CASE scores' = scores
  BY <1>1, <1>2
<1>3. ASSUME NEW c \in Clients, ScoreOpportunity(c)
      PROVE  ScoreIsDerived(scores[p])'
  <2> DEFINE q == query[c]
             s == [score |-> ScoreProspect(ScoringInput(q.fit, q.stored), q.on),
                   scoredOn |-> q.on, evidence |-> q.stored]
  <2>1. q \in Asked /\ q.pc = "write" /\ q.op = "score"
    BY <1>3 DEF ScoreOpportunity, Writes, OpportunitiesIInv, ScoringTyped
  <2>2. q.on \in Days /\ q.on <= date /\ q.stored \in Evidence /\ q.fit \in Fit
    BY <2>1 DEF Asked, OpportunitiesIInv, CallsAreSound, CallIsSound
  <2>3. q.on <= date'
    BY <2>2, TimePasses DEF OpportunitiesIInv, Grows
  <2>4. scores' = Upserted(scores, q.prospect, s)
    BY <1>3 DEF ScoreOpportunity
  <2> HIDE DEF s
  <2>5. CASE p = q.prospect
    <3>1. s.evidence = q.stored /\ s.scoredOn = q.on
          /\ s.score = ScoreProspect(ScoringInput(q.fit, q.stored), q.on)
      BY DEF s
    <3>2. scores'[p] = s
      BY <2>4, <2>5 DEF Upserted
    <3> QED BY <2>2, <2>3, <3>1, <3>2 DEF ScoreIsDerived
  <2>6. CASE p # q.prospect
    <3>1. p \in DOMAIN scores /\ scores'[p] = scores[p]
      BY <2>4, <2>6 DEF Upserted
    <3> QED BY <1>1, <3>1
  <2> QED BY <2>5, <2>6
<1>4. ASSUME NEW c \in Clients, CreateOpportunity(c) \/ ClassifyOpportunityStaleness(c)
      PROVE  scores' = scores
  BY <1>4 DEF CreateOpportunity, ClassifyOpportunityStaleness
<1> QED BY <1>2, <1>3, <1>4, OtherSteps DEF Writing

\* What was backed when it was written is backed still.
LEMMA StillBacked ==
    ASSUME OpportunitiesIInv, Grows, NEW p, NEW stored, NEW since \in Days, since <= date,
           Backed(signals, p, stored, since)
    PROVE  Backed(signals', p, stored, since)
BY BackedIsKept DEF OpportunitiesIInv, ScoringTyped, Grows

LEMMA EvidenceKept ==
    ASSUME OpportunitiesIInv, [OpportunitiesNext]_opportunityVars, ScoringTyped', Grows
    PROVE  EvidenceWasActive'
<1> DEFINE OfferBacked(p) ==
               /\ Backed(signals, p, opportunities[p].basedOn, opportunities[p].on)
               /\ opportunities[p].computedOn # None =>
                     Backed(signals, p, opportunities[p].checked, opportunities[p].computedOn)
           ScoreBacked(p) == Backed(signals, p, scores[p].evidence, scores[p].scoredOn)
<1>1. ASSUME NEW p \in DOMAIN opportunities, opportunities'[p] = opportunities[p]
      PROVE  OfferBacked(p)'
  <2>1. /\ opportunities[p] \in Opportunity /\ OpportunityIsDerived(opportunities[p])
        /\ OfferBacked(p)
    BY DEF OpportunitiesIInv, ScoringTyped, OffersAreDerived, EvidenceWasActive
  <2>2. /\ opportunities[p].on \in Days /\ opportunities[p].on <= date
        /\ opportunities[p].computedOn # None =>
              opportunities[p].computedOn \in Days /\ opportunities[p].computedOn <= date
    BY <2>1 DEF Opportunity, OpportunityIsDerived
  <2> QED BY <1>1, <2>1, <2>2, StillBacked
<1>2. ASSUME NEW p \in DOMAIN scores, scores'[p] = scores[p]
      PROVE  ScoreBacked(p)'
  <2>1. ScoreIsDerived(scores[p]) /\ ScoreBacked(p)
    BY DEF OpportunitiesIInv, ScoresAreDerived, EvidenceWasActive
  <2> QED BY <1>2, <2>1, StillBacked DEF ScoreIsDerived
<1>3. ASSUME NEW c \in Clients, Writing(c)
      PROVE  /\ query[c].prospect \in DOMAIN opportunities \/ query[c].op = "create"
             /\ Backed(signals', query[c].prospect, query[c].stored, query[c].on)
  <2>1. /\ query[c] \in Asked /\ query[c].pc = "write"
        /\ query[c].op \in {"create", "score", "classify"}
    BY <1>3 DEF Writing, CreateOpportunity, ScoreOpportunity, ClassifyOpportunityStaleness, Writes,
                OpportunitiesIInv, ScoringTyped
  <2>2. CallIsSound(query[c])
    BY DEF OpportunitiesIInv, CallsAreSound
  <2>3. /\ query[c].on \in Days /\ query[c].on <= date
        /\ Backed(signals, query[c].prospect, query[c].stored, query[c].on)
    BY <2>1, <2>2 DEF Asked, CallIsSound
  <2>4. Backed(signals', query[c].prospect, query[c].stored, query[c].on)
    BY <2>3, StillBacked
  <2> QED BY <2>1, <2>2, <2>4 DEF CallIsSound
<1>4. ASSUME NEW p \in DOMAIN opportunities' PROVE OfferBacked(p)'
  <2>1. CASE opportunities' = opportunities
    BY <1>1, <1>4, <2>1
  <2>2. ASSUME NEW c \in Clients, CreateOpportunity(c), opportunities' # opportunities
        PROVE  OfferBacked(p)'
    <3> DEFINE q == query[c]
               o == [state |-> "NEW", fit |-> SuggestOffer(q.stored), staleness |-> "FRESH",
                     computedOn |-> None, basedOn |-> q.stored, checked |-> q.stored,
                     on |-> q.on]
    <3>1. opportunities' = Upserted(opportunities, q.prospect, o)
      BY <2>2 DEF CreateOpportunity
    <3>2. o.on = q.on /\ o.basedOn = q.stored /\ o.computedOn = None
      OBVIOUS
    <3> HIDE DEF o
    <3>3. CASE p = q.prospect
      <4>1. opportunities'[p] = o
        BY <3>1, <3>3 DEF Upserted
      <4>2. Backed(signals', p, q.stored, q.on)
        BY <1>3, <2>2, <3>3 DEF Writing
      <4> QED BY <3>2, <4>1, <4>2
    <3>4. CASE p # q.prospect
      <4>1. p \in DOMAIN opportunities /\ opportunities'[p] = opportunities[p]
        BY <1>4, <3>1, <3>4 DEF Upserted
      <4> QED BY <1>1, <4>1
    <3> QED BY <3>3, <3>4
  <2>3. ASSUME NEW c \in Clients, ClassifyOpportunityStaleness(c)
        PROVE  OfferBacked(p)'
    <3> DEFINE q == query[c]
               level == ClassifyStaleness(ToScoringSignals(q.stored), q.on)
               o == [opportunities[q.prospect] EXCEPT !.staleness = level, !.computedOn = q.on,
                                                      !.checked = q.stored]
    <3>1. q.prospect \in DOMAIN opportunities
      BY <1>3, <2>3 DEF Writing, ClassifyOpportunityStaleness, Writes
    <3>2. opportunities' = [opportunities EXCEPT ![q.prospect] = o]
      BY <2>3, <3>1 DEF ClassifyOpportunityStaleness, OpportunitiesIInv, ScoringTyped
    <3>3. CASE p = q.prospect
      <4>1. /\ opportunities[p] \in Opportunity /\ OpportunityIsDerived(opportunities[p])
            /\ OfferBacked(p)
        BY <3>1, <3>3 DEF OpportunitiesIInv, ScoringTyped, OffersAreDerived, EvidenceWasActive
      <4>2. opportunities[p].on \in Days /\ opportunities[p].on <= date
        BY <4>1 DEF Opportunity, OpportunityIsDerived
      <4>3. /\ opportunities'[p].on = opportunities[p].on
            /\ opportunities'[p].basedOn = opportunities[p].basedOn
            /\ opportunities'[p].computedOn = q.on /\ opportunities'[p].checked = q.stored
        BY <3>1, <3>2, <3>3, <4>1 DEF Opportunity
      <4> HIDE DEF o
      <4>4. Backed(signals', p, opportunities[p].basedOn, opportunities[p].on)
        BY <4>1, <4>2, StillBacked
      <4>5. Backed(signals', p, q.stored, q.on)
        BY <1>3, <2>3, <3>3 DEF Writing
      <4> QED BY <4>3, <4>4, <4>5
    <3>4. CASE p # q.prospect
      <4>1. p \in DOMAIN opportunities /\ opportunities'[p] = opportunities[p]
        BY <1>4, <3>1, <3>2, <3>4
      <4> QED BY <1>1, <4>1
    <3> QED BY <3>3, <3>4
  <2>4. \A c \in Clients : ScoreOpportunity(c) => opportunities' = opportunities
    BY DEF ScoreOpportunity
  <2> HIDE DEF OfferBacked
  <2> QED BY <2>1, <2>2, <2>3, <2>4, OtherSteps DEF Writing
<1>5. ASSUME NEW p \in DOMAIN scores' PROVE ScoreBacked(p)'
  <2>1. CASE scores' = scores
    BY <1>2, <1>5, <2>1
  <2>2. ASSUME NEW c \in Clients, ScoreOpportunity(c)
        PROVE  ScoreBacked(p)'
    <3> DEFINE q == query[c]
               s == [score |-> ScoreProspect(ScoringInput(q.fit, q.stored), q.on),
                     scoredOn |-> q.on, evidence |-> q.stored]
    <3>1. scores' = Upserted(scores, q.prospect, s)
      BY <2>2 DEF ScoreOpportunity
    <3>2. s.evidence = q.stored /\ s.scoredOn = q.on
      OBVIOUS
    <3> HIDE DEF s
    <3>3. CASE p = q.prospect
      <4>1. scores'[p] = s
        BY <3>1, <3>3 DEF Upserted
      <4>2. Backed(signals', p, q.stored, q.on)
        BY <1>3, <2>2, <3>3 DEF Writing
      <4> QED BY <3>2, <4>1, <4>2
    <3>4. CASE p # q.prospect
      <4>1. p \in DOMAIN scores /\ scores'[p] = scores[p]
        BY <1>5, <3>1, <3>4 DEF Upserted
      <4> QED BY <1>2, <4>1
    <3> QED BY <3>3, <3>4
  <2>3. \A c \in Clients :
          CreateOpportunity(c) \/ ClassifyOpportunityStaleness(c) => scores' = scores
    BY DEF CreateOpportunity, ClassifyOpportunityStaleness
  <2> HIDE DEF ScoreBacked
  <2> QED BY <2>1, <2>2, <2>3, OtherSteps DEF Writing
<1> QED BY <1>4, <1>5 DEF EvidenceWasActive

LEMMA OpportunitiesAreCounted ==
    ASSUME ScoringTyped, ScoringTyped', Grows
    PROVE  /\ Cardinality(DOMAIN opportunities) \in Nat
           /\ Cardinality(DOMAIN opportunities') \in Nat
           /\ Cardinality(DOMAIN opportunities) <= Cardinality(DOMAIN opportunities')
<1>1. DOMAIN opportunities' \subseteq Prospects /\ IsFiniteSet(Prospects)
  BY OpportunityConstants DEF ScoringTyped
<1>2. IsFiniteSet(DOMAIN opportunities')
  BY <1>1, FS_Subset
<1>3. DOMAIN opportunities \subseteq DOMAIN opportunities'
  BY DEF Grows
<1> HIDE DEF ScoringTyped
<1>4. IsFiniteSet(DOMAIN opportunities)
      /\ Cardinality(DOMAIN opportunities) <= Cardinality(DOMAIN opportunities')
  BY <1>2, <1>3, FS_Subset
<1> QED BY <1>2, <1>4, FS_CardinalityType

\* How a step leaves the calls: at most one of them moves.
LEMMA CallsMove ==
    ASSUME ScoringTyped, [OpportunitiesNext]_opportunityVars
    PROVE  \/ query' = query
           \/ \E c \in Clients :
                 /\ \A k \in Clients : k # c => query'[k] = query[k]
                 /\ \/ query'[c] = IdleQuery
                    \/ \E op \in Ops, p \in Prospects : AskOpportunity(c, op, p)
                    \/ FindOpportunity(c) \/ ReadSignals(c)
                    \/ CountOpportunities(c) \/ CountFeedback(c)
<1>1. ASSUME NEW c \in Clients,
             \/ CreateOpportunity(c) \/ ScoreOpportunity(c) \/ ClassifyOpportunityStaleness(c)
             \/ \E useful \in BOOLEAN : RecordFeedback(c, useful)
      PROVE  /\ \A k \in Clients : k # c => query'[k] = query[k]
             /\ query'[c] = IdleQuery
  BY <1>1 DEF CreateOpportunity, ScoreOpportunity, ClassifyOpportunityStaleness, RecordFeedback,
              Writes, ScoringTyped
<1>2. ASSUME NEW c \in Clients,
             \/ \E op \in Ops, p \in Prospects : AskOpportunity(c, op, p)
             \/ FindOpportunity(c) \/ ReadSignals(c)
             \/ CountOpportunities(c) \/ CountFeedback(c)
      PROVE  \A k \in Clients : k # c => query'[k] = query[k]
  BY <1>2 DEF AskOpportunity, FindOpportunity, ReadSignals, CountOpportunities, CountFeedback,
              ScoringTyped
<1>3. ASSUME \/ DayPasses \/ EndResearch \/ UNCHANGED opportunityVars
             \/ \E p \in Prospects : StartResearch(p)
             \/ \E p \in Prospects : SupersedePrevious(p)
             \/ \E finding \in Findings : SaveSignal(finding)
      PROVE  query' = query
  BY <1>3 DEF DayPasses, EndResearch, StartResearch, SupersedePrevious, SaveSignal,
              opportunityVars
<1> QED BY <1>1, <1>2, <1>3 DEF OpportunitiesNext

\* A call that stands still stays sound, and so do its counts.
LEMMA StandingCall ==
    ASSUME OpportunitiesIInv, ScoringTyped', Grows, NEW q \in Asked \cup {IdleQuery},
           CallIsSound(q), CountIsBracketed(q)
    PROVE  CallIsSound(q)' /\ CountIsBracketed(q)'
<1>1. CASE q = IdleQuery
  BY <1>1 DEF CallIsSound, CountIsBracketed, IdleQuery
<1>2. CASE q \in Asked
  <2> DEFINE had == Cardinality(DOMAIN opportunities)
             has == Cardinality(DOMAIN opportunities')
  <2>1. /\ q.on \in Days /\ q.before \in Nat /\ q.created \in Nat \cup {None}
        /\ q.actioned \in [useful : Nat, all : Nat] \cup {None}
    BY <1>2 DEF Asked
  <2>2. had \in Nat /\ has \in Nat /\ had <= has
    BY OpportunitiesAreCounted DEF OpportunitiesIInv
  <2>3. q.pc # "idle" => q.on <= date /\ q.on <= date'
    BY <2>1, TimePasses DEF CallIsSound, OpportunitiesIInv, Grows
  <2>4. q.pc = "write" /\ q.op # "feedback" => Backed(signals', q.prospect, q.stored, q.on)
    BY <2>1, <2>3, StillBacked DEF CallIsSound
  <2>5. DOMAIN opportunities \subseteq DOMAIN opportunities'
    BY DEF Grows
  <2> HIDE DEF had, has
  <2>6. q.pc \in {"count", "told"} => q.before <= has
    BY <2>1, <2>2 DEF CallIsSound, had
  <2>7. CallIsSound(q)'
    BY <2>3, <2>4, <2>5, <2>6 DEF CallIsSound, has
  <2>8. \A n \in Nat : n <= had => n <= has
    BY <2>2
  <2>9. q.pc \in {"count", "told"} /\ q.created # None => q.before <= q.created /\ q.created <= has
    BY <2>1, <2>8 DEF CountIsBracketed, had
  <2>10. q.pc \in {"count", "told"} /\ q.actioned # None =>
           q.actioned.all <= has /\ q.actioned.useful <= q.actioned.all
    BY <2>1, <2>8 DEF CountIsBracketed, had
  <2>11. q.pc = "told" => /\ q.created \in Nat /\ q.before <= q.created /\ q.created <= has
                         /\ q.actioned \in [useful : Nat, all : Nat]
                         /\ q.actioned.all <= has /\ q.actioned.useful <= q.actioned.all
    BY <2>1, <2>8 DEF CountIsBracketed, had
  <2>12. CountIsBracketed(q)'
    BY <2>9, <2>10, <2>11 DEF CountIsBracketed, has
  <2> QED BY <2>7, <2>12
<1> QED BY <1>1, <1>2

\* A call that moves has what its next query needs.
LEMMA MovingCall ==
    ASSUME OpportunitiesIInv, ScoringTyped', Grows, NEW c \in Clients,
           \/ \E op \in Ops, p \in Prospects : AskOpportunity(c, op, p)
           \/ FindOpportunity(c) \/ ReadSignals(c)
           \/ CountOpportunities(c) \/ CountFeedback(c)
    PROVE  CallIsSound(query[c])' /\ CountIsBracketed(query[c])'
<1> DEFINE q == query[c]
           had == Cardinality(DOMAIN opportunities)
<1>1. /\ date' = date /\ opportunities' = opportunities /\ signals' = signals
      /\ feedback' = feedback /\ ScoringTyped /\ date \in Days /\ date <= date
  BY OpportunityConstants DEF AskOpportunity, FindOpportunity, ReadSignals, CountOpportunities,
     CountFeedback, OpportunitiesIInv, ScoringTyped
<1>2. had \in Nat /\ had <= had
  BY <1>1, OpportunitiesAreCounted
<1>3. CallIsSound(q) /\ CountIsBracketed(q)
  BY DEF OpportunitiesIInv, CallsAreSound, CountsAreBracketed
<1>4. CASE \E op \in Ops, p \in Prospects : AskOpportunity(c, op, p)
  <2>1. PICK op \in Ops, p \in Prospects : AskOpportunity(c, op, p)
    BY <1>4
  <2> DEFINE first == CASE op = "create" -> "signals"
                        [] op = "summary" -> "count"
                        [] op \in {"score", "classify", "feedback"} -> "find"
             before == IF op = "summary" THEN had ELSE 0
             asked == [pc |-> first, op |-> op, prospect |-> p,
                       on |-> date, fit |-> None, stored |-> << >>,
                       created |-> None, actioned |-> None, before |-> before]
  <2>2. query'[c] = asked
    BY <2>1 DEF AskOpportunity, OpportunitiesIInv, ScoringTyped
  <2>3. /\ asked.pc = first /\ asked.op = op /\ asked.on = date /\ asked.created = None
        /\ asked.actioned = None /\ asked.before = before
    OBVIOUS
  <2> HIDE DEF asked
  <2>4. \/ asked.pc = "signals" /\ asked.op = "create"
        \/ asked.pc = "count" /\ asked.before = had
        \/ asked.pc = "find" /\ asked.op \in {"score", "classify", "feedback"}
    BY <2>3 DEF Ops
  <2> HIDE DEF first, before
  <2> HIDE DEF had
  <2>5. CallIsSound(query[c])'
    BY <2>2, <1>1, <1>2, <2>3, <2>4 DEF CallIsSound, had
  <2>6. CountIsBracketed(query[c])'
    BY <2>2, <2>3, <2>4 DEF CountIsBracketed
  <2> QED BY <2>5, <2>6
<1>5. CASE FindOpportunity(c)
  <2>1. q \in Asked /\ q.pc = "find"
    BY <1>1, <1>5 DEF FindOpportunity, ScoringTyped
  <2>2. CASE q.prospect \notin DOMAIN opportunities
    <3>1. query'[c] = IdleQuery
      BY <1>1, <1>5, <2>2 DEF FindOpportunity, ScoringTyped
    <3> QED BY <3>1 DEF CallIsSound, CountIsBracketed, IdleQuery
  <2>3. CASE q.prospect \in DOMAIN opportunities
    <3> DEFINE next == IF q.op = "feedback" THEN "write" ELSE "signals"
               r == [q EXCEPT !.fit = opportunities[q.prospect].fit, !.pc = next]
    <3>1. query'[c] = r
      BY <1>1, <1>5, <2>3 DEF FindOpportunity, ScoringTyped
    <3>2. /\ r.pc = next /\ r.op = q.op /\ r.prospect = q.prospect /\ r.on = q.on
      BY <2>1 DEF Asked
    <3> HIDE DEF r
    <3>3. CallIsSound(query[c])'
      BY <3>1, <1>1, <1>3, <2>1, <2>3, <3>2 DEF CallIsSound
    <3>4. CountIsBracketed(query[c])'
      BY <3>1, <3>2 DEF CountIsBracketed
    <3> QED BY <3>3, <3>4
  <2> QED BY <2>2, <2>3
<1>6. CASE ReadSignals(c)
  <2> DEFINE listed == ListByProspect(q.prospect)
             r == [q EXCEPT !.stored = listed, !.pc = "write"]
  <2>1. q \in Asked /\ q.pc = "signals"
    BY <1>1, <1>6 DEF ReadSignals, ScoringTyped
  <2>2. query'[c] = r
    BY <1>1, <1>6 DEF ReadSignals, ScoringTyped
  <2>3. /\ r.pc = "write" /\ r.op = q.op /\ r.prospect = q.prospect /\ r.on = q.on
        /\ r.stored = listed
    BY <2>1 DEF Asked
  <2> HIDE DEF r
  <2>4. Backed(signals, q.prospect, listed, q.on)
    <3>1. \A i \in DOMAIN listed :
            /\ i \in DOMAIN signals /\ listed[i] = signals[i]
            /\ signals[i].prospect = q.prospect /\ signals[i].leftOn = None
      BY <1>1, ListIsEvidence DEF ScoringTyped
    <3> QED BY <3>1 DEF Backed
  <2> HIDE DEF listed
  <2>5. CallIsSound(query[c])'
    BY <2>2, <1>1, <1>3, <2>1, <2>3, <2>4 DEF CallIsSound
  <2>6. CountIsBracketed(query[c])'
    BY <2>2, <2>3 DEF CountIsBracketed
  <2> QED BY <2>5, <2>6
<1>7. CASE CountOpportunities(c)
  <2> DEFINE r == [q EXCEPT !.created = had, !.pc = IF q.actioned # None THEN "told" ELSE q.pc]
  <2>1. q \in Asked /\ q.pc = "count"
    BY <1>1, <1>7 DEF CountOpportunities, ScoringTyped
  <2>2. query'[c] = r
    BY <1>1, <1>7 DEF CountOpportunities, ScoringTyped
  <2>3. /\ r.pc = (IF q.actioned # None THEN "told" ELSE "count") /\ r.on = q.on
        /\ r.created = had /\ r.actioned = q.actioned /\ r.before = q.before
    BY <2>1 DEF Asked
  <2>4. q.actioned # None => q.actioned \in [useful : Nat, all : Nat]
    BY <2>1 DEF Asked
  <2> HIDE DEF r
  <2>5. CallIsSound(query[c])'
    BY <2>2, <1>1, <1>3, <2>1, <2>3 DEF CallIsSound
  <2>6. CountIsBracketed(query[c])'
    BY <2>2, <1>1, <1>2, <1>3, <2>1, <2>3, <2>4 DEF CallIsSound, CountIsBracketed
  <2> QED BY <2>5, <2>6
<1>8. CASE CountFeedback(c)
  <2> DEFINE useful == Cardinality({p \in DOMAIN feedback : feedback[p]})
             all == Cardinality(DOMAIN feedback)
             count == [useful |-> useful, all |-> all]
             r == [q EXCEPT !.actioned = count, !.pc = IF q.created # None THEN "told" ELSE q.pc]
  <2>1. q \in Asked /\ q.pc = "count"
    BY <1>1, <1>8 DEF CountFeedback, ScoringTyped
  <2>2. query'[c] = r
    BY <1>1, <1>8 DEF CountFeedback, ScoringTyped
  <2>3. /\ r.pc = (IF q.created # None THEN "told" ELSE "count") /\ r.on = q.on
        /\ r.created = q.created /\ r.actioned = count /\ r.before = q.before
    BY <2>1 DEF Asked
  <2> HIDE DEF r
  <2>4. useful \in Nat /\ all \in Nat /\ useful <= all /\ all <= had
    <3>1. IsFiniteSet(DOMAIN opportunities) /\ DOMAIN feedback \subseteq DOMAIN opportunities
      BY <1>1, OpportunityConstants, FS_Subset DEF ScoringTyped
    <3>2. IsFiniteSet(DOMAIN feedback) /\ all <= had
      BY <3>1, FS_Subset
    <3>3. IsFiniteSet({p \in DOMAIN feedback : feedback[p]}) /\ useful <= all
      BY <3>2, FS_Subset
    <3> QED BY <3>2, <3>3, FS_CardinalityType
  <2> HIDE DEF useful, all
  <2>5. count \in [useful : Nat, all : Nat] /\ count.useful <= count.all /\ count.all <= had
    BY <2>4
  <2> HIDE DEF count
  <2>6. q.created # None => q.created \in Nat
    BY <2>1 DEF Asked
  <2>7. CallIsSound(query[c])'
    BY <2>2, <1>1, <1>3, <2>1, <2>3 DEF CallIsSound
  <2>8. CountIsBracketed(query[c])'
    BY <2>2, <1>1, <1>3, <2>1, <2>3, <2>5, <2>6 DEF CountIsBracketed
  <2> QED BY <2>7, <2>8
<1> QED BY <1>4, <1>5, <1>6, <1>7, <1>8

LEMMA CallsKept ==
    ASSUME OpportunitiesIInv, [OpportunitiesNext]_opportunityVars, ScoringTyped', Grows
    PROVE  CallsAreSound' /\ CountsAreBracketed'
<1>1. ASSUME NEW k \in Clients, query'[k] = query[k]
      PROVE  CallIsSound(query[k])' /\ CountIsBracketed(query[k])'
  <2>1. /\ query[k] \in Asked \cup {IdleQuery}
        /\ CallIsSound(query[k]) /\ CountIsBracketed(query[k])
    BY DEF OpportunitiesIInv, ScoringTyped, CallsAreSound, CountsAreBracketed
  <2>2. \A q \in Asked \cup {IdleQuery} :
          CallIsSound(q) /\ CountIsBracketed(q) => CallIsSound(q)' /\ CountIsBracketed(q)'
    BY StandingCall
  <2> QED BY <1>1, <2>1, <2>2 DEF CallIsSound, CountIsBracketed
<1>2. ASSUME NEW c \in Clients, query'[c] = IdleQuery
      PROVE  CallIsSound(query[c])' /\ CountIsBracketed(query[c])'
  BY <1>2 DEF CallIsSound, CountIsBracketed, IdleQuery
<1>3. ScoringTyped
  BY DEF OpportunitiesIInv
<1>4. ASSUME NEW k \in Clients
      PROVE  CallIsSound(query[k])' /\ CountIsBracketed(query[k])'
  BY <1>1, <1>2, <1>3, CallsMove, MovingCall
<1> QED BY <1>4 DEF CallsAreSound, CountsAreBracketed

LEMMA OpportunitiesInductive ==
    ASSUME OpportunitiesIInv, [OpportunitiesNext]_opportunityVars
    PROVE  OpportunitiesIInv'
<1>1. ScoringTyped /\ CallsAreSound
  BY DEF OpportunitiesIInv
<1>2. ScoringTyped'
  BY <1>1, TypedIsKept
<1>3. Grows
  BY <1>1, StepGrows
<1>4. OffersAreDerived' /\ ScoresAreDerived' /\ EvidenceWasActive'
  BY <1>2, <1>3, OffersKept, ScoresKept, EvidenceKept
<1>5. CallsAreSound' /\ CountsAreBracketed'
  BY <1>2, <1>3, CallsKept
<1> QED BY <1>2, <1>4, <1>5 DEF OpportunitiesIInv

\* What the invariant is for.
LEMMA OpportunitiesKeepTheirPromise == OpportunitiesIInv => OpportunitiesHold
<1> SUFFICES ASSUME OpportunitiesIInv PROVE OpportunitiesHold
  OBVIOUS
<1>1. ScoringTyped
  BY DEF OpportunitiesIInv
<1>2. OpportunitiesTypeOK
  <2>1. \A i \in DOMAIN signals : signals[i] \in SignalRows
    BY <1>1 DEF ScoringTyped
  <2>2. \A i \in DOMAIN signals :
          signals[i].prospect \in Prospects /\ signals[i].observedOn \in Days
    BY <2>1 DEF SignalRows
  <2>3. \A c \in Clients : query[c].pc \in Steps
    BY <1>1 DEF ScoringTyped, Asked, IdleQuery, Steps
  <2> QED BY <1>1, <2>2, <2>3 DEF ScoringTyped, OpportunitiesTypeOK, Steps
<1>3. InferenceIsNoProblem
  <2> SUFFICES ASSUME NEW p \in DOMAIN scores
               PROVE  /\ "OBSERVED" \notin ClassesOf(scores[p].evidence) =>
                            /\ scores[p].score.factors.visibleProblem.points = 0
                            /\ scores[p].score.factors.evidenceQuality.points = 0
                      /\ scores[p].score.band # "HIGH"
    BY DEF InferenceIsNoProblem
  <2>1. /\ scores[p].evidence \in Evidence /\ scores[p].scoredOn \in Int
        /\ \E fit \in Fit : scores[p].score =
             ScoreProspect(ScoringInput(fit, scores[p].evidence), scores[p].scoredOn)
    <3>1. ScoreIsDerived(scores[p])
      BY DEF OpportunitiesIInv, ScoresAreDerived
    <3>2. Days \subseteq Int
      BY OpportunityConstants
    <3> QED BY <3>1, <3>2 DEF ScoreIsDerived
  <2>2. PICK fit \in Fit :
          scores[p].score =
            ScoreProspect(ScoringInput(fit, scores[p].evidence), scores[p].scoredOn)
    BY <2>1
  <2> QED BY <2>1, <2>2, NeutralScore
<1>4. ActionIsBacked
  <2> SUFFICES ASSUME NEW p \in DOMAIN opportunities,
                      NextAction(opportunities[p]) \in {"CONSIDER_OFFER", "REVIEW_EVIDENCE"}
               PROVE  /\ \E r \in Range(opportunities[p].basedOn) : IsClaim(r) /\ r.finding.matches
                      /\ opportunities[p].computedOn # None =>
                           \E r \in Range(opportunities[p].checked) :
                              IsClaim(r) /\ opportunities[p].computedOn - r.observedOn
                                               <= SIGNAL_FRESH_DAYS
    BY DEF ActionIsBacked
  <2>1. /\ opportunities[p] \in Opportunity /\ OpportunityIsDerived(opportunities[p])
    BY DEF OpportunitiesIInv, ScoringTyped, OffersAreDerived
  <2>2. opportunities[p].fit # None /\ opportunities[p].staleness = "FRESH"
    BY DEF NextAction
  <2>3. /\ opportunities[p].basedOn \in Evidence /\ opportunities[p].checked \in Evidence
        /\ opportunities[p].computedOn # None => opportunities[p].computedOn \in Int
    <3>1. \A o \in Opportunity :
            /\ o.basedOn \in Evidence /\ o.checked \in Evidence
            /\ o.computedOn \in Days \cup {None}
      BY DEF Opportunity
    <3>2. Days \subseteq Int
      BY OpportunityConstants
    <3> QED BY <2>1, <3>1, <3>2
  <2>4. \E r \in Range(opportunities[p].basedOn) : IsClaim(r) /\ r.finding.matches
    BY <2>1, <2>2, <2>3, OfferFacts DEF OpportunityIsDerived
  <2>5. ASSUME opportunities[p].computedOn # None
        PROVE  \E r \in Range(opportunities[p].checked) :
                  IsClaim(r) /\ opportunities[p].computedOn - r.observedOn <= SIGNAL_FRESH_DAYS
    BY <2>1, <2>2, <2>3, <2>5, FreshFacts DEF OpportunityIsDerived
  <2> QED BY <2>4, <2>5
<1>5. SummaryIsBracketed
  <2>1. \A c \in Clients : CountIsBracketed(query[c])
    BY DEF OpportunitiesIInv, CountsAreBracketed
  <2> QED BY <2>1 DEF SummaryIsBracketed, CountIsBracketed
<1> QED BY <1>2, <1>3, <1>4, <1>5 DEF OpportunitiesIInv, OpportunitiesHold

\* However calls, a research run and days interleave, an offer, a score, a staleness and
\* a recommended action rest on signals of that prospect none of which was replaced before
\* the day the call that wrote them began, inference alone makes no visible problem, and a
\* summary counts what there was.
THEOREM OpportunitiesHoldAlways == OpportunitiesSpec => []OpportunitiesHold
<1>1. OpportunitiesInit => OpportunitiesIInv
  BY InitHolds
<1>2. OpportunitiesIInv /\ [OpportunitiesNext]_opportunityVars => OpportunitiesIInv'
  BY OpportunitiesInductive
<1>3. OpportunitiesIInv => OpportunitiesHold
  BY OpportunitiesKeepTheirPromise
<1> QED BY <1>1, <1>2, <1>3, PTL DEF OpportunitiesSpec

\* For every prospect that may be entered and every age: HIGH rests on what was observed,
\* taking a claim as inferred never helps, and neither does waiting.
THEOREM ProspectsHoldAlways == ProspectsSpec => []ProspectsHold
<1> QED BY ProspectsInductive, PTL DEF ProspectsSpec

\* Both, side by side.
THEOREM ScoringHoldsAlways == OpportunitiesSpec /\ ProspectsSpec => []ScoringHolds
<1>1. OpportunitiesHold /\ ProspectsHold => ScoringHolds
  BY DEF ScoringHolds
<1> QED BY <1>1, OpportunitiesHoldAlways, ProspectsHoldAlways, PTL

===========================================================================
