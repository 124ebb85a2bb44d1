------------------------------- MODULE SearchIntake -------------------------------
(***************************************************************************)
(* How a Search comes into being: the service profiles a user owns         *)
(* (packages/core-service-profile) and createSearch (packages/core-search),*)
(* which copies a profile into the new Search.  Every call is a few        *)
(* queries with no transaction around them, so calls of several browser    *)
(* windows interleave, and a client repeats a call it had no answer to.    *)
(*                                                                         *)
(* A row is known by its place in its table; a deleted profile leaves a    *)
(* gap.  Of a profile's fields the model keeps how often they were edited. *)
(* requireUser comes first in every call: a call without a session touches *)
(* nothing and is left out.  What becomes of a Search is SearchLifecycle.  *)
(***************************************************************************)
EXTENDS Absence, Naturals, Sequences

CONSTANTS
    Users,
    Callers,      \* calls under way at the same time
    SearchKeys,   \* idempotency keys
    MaxProfiles,  \* bound: profiles ever created
    MaxEdits,     \* bound: edits of a profile
    MaxCalls      \* bound: calls of createSearch

VARIABLES
    profiles,  \* service_profiles: [owner, edits], or None when deleted
    searches,  \* [owner, profile, edits, key], as they were inserted
    call,      \* each caller: its request, its step and what it has read
    calls      \* calls of createSearch so far

intakeVars == <<profiles, searches, call, calls>>

NoCall == [pc |-> "idle"]
Rows == [owner : Users, edits : 0..MaxEdits]

\* The bounds are numbers, and None is nothing else.
IntakeAssumptions ==
    /\ MaxProfiles \in Nat /\ MaxEdits \in Nat /\ MaxCalls \in Nat
    /\ None \notin Rows /\ None \notin SearchKeys /\ None \notin 0..MaxEdits

ASSUME IntakeConstants == IntakeAssumptions

CallErrors == {"conflict", "not found", "unique violation", "foreign key violation"}

IntakeTypeOK ==
    /\ profiles \in Seq(Rows \cup {None})
    /\ Len(profiles) <= MaxProfiles
    /\ searches \in Seq([owner : Users, profile : 1..MaxProfiles, edits : 0..MaxEdits,
                         key : SearchKeys \cup {None}])
    /\ \A c \in Callers : call[c] # NoCall =>
        /\ call[c].pc \in {"lookup", "profile", "insert", "done"}
        /\ call[c].user \in Users
        /\ call[c].profile \in DOMAIN profiles
        /\ call[c].key \in SearchKeys \cup {None}
        /\ call[c].edits \in 0..MaxEdits \cup {None}
        /\ call[c].answer \in CallErrors \cup {"ok", None}
        /\ call[c].search \in DOMAIN searches \cup {None}
        /\ call[c].began \in 0..Len(searches) /\ call[c].edited \in 0..MaxEdits
    /\ calls \in 0..MaxCalls

IntakeInit ==
    /\ profiles = << >>
    /\ searches = << >>
    /\ call = [c \in Callers |-> NoCall]
    /\ calls = 0

--------------------------------------------------------------------------
(* Service profiles: one statement each, filtered by its owner; a call     *)
(* about a profile that is gone or somebody else's changes nothing.        *)

EditsOf(p) == IF profiles[p] = None THEN 0 ELSE profiles[p].edits

\* WHERE id = $1 AND user_id = $2.
Owns(user, p) == profiles[p] # None /\ profiles[p].owner = user

CreateServiceProfile(user) ==
    /\ Len(profiles) < MaxProfiles
    /\ profiles' = Append(profiles, [owner |-> user, edits |-> 0])
    /\ UNCHANGED <<searches, call, calls>>

UpdateServiceProfile(user, p) ==
    /\ Owns(user, p) /\ profiles[p].edits < MaxEdits
    /\ profiles' = [profiles EXCEPT ![p].edits = @ + 1]
    /\ UNCHANGED <<searches, call, calls>>

\* A profile that has any Search stays: the violation leaves the service uncaught.
DeleteServiceProfile(user, p) ==
    /\ Owns(user, p) /\ \A s \in DOMAIN searches : searches[s].profile # p
    /\ profiles' = [profiles EXCEPT ![p] = None]
    /\ UNCHANGED <<searches, call, calls>>

--------------------------------------------------------------------------
(* createSearch.  began and edited remember, for the properties, how many  *)
(* Searches there were and how far the profile was edited at its start.    *)

Ask(c, user, p, key) ==
    /\ call[c].pc \in {"idle", "done"} /\ calls < MaxCalls
    /\ calls' = calls + 1
    /\ call' = [call EXCEPT ![c] =
           [pc |-> IF key = None THEN "profile" ELSE "lookup",
            user |-> user, profile |-> p, key |-> key,
            edits |-> None, answer |-> None, search |-> None,
            began |-> Len(searches), edited |-> EditsOf(p)]]
    /\ UNCHANGED <<profiles, searches>>

RefuseCall(c, error) == call' = [call EXCEPT ![c].pc = "done", ![c].answer = error]
Return(c, s) == call' = [call EXCEPT ![c].pc = "done", ![c].answer = "ok", ![c].search = s]

\* Mutant: the lookup is not filtered by the user.
WithKeyOfAnyone(user, key) == {s \in DOMAIN searches : key # None /\ searches[s].key = key}

\* The unique index on user and key allows at most one.
SearchWithKey(user, key) ==
    {s \in DOMAIN searches : key # None /\ searches[s].key = key /\ searches[s].owner = user}

FindByIdempotencyKey(c) ==
    /\ call[c].pc = "lookup"
    /\ LET existing == SearchWithKey(call[c].user, call[c].key) IN
       \/ existing = {} /\ call' = [call EXCEPT ![c].pc = "profile"]
       \/ \E s \in existing :
            IF searches[s].profile = call[c].profile THEN Return(c, s)
            ELSE RefuseCall(c, "conflict")
    /\ UNCHANGED <<profiles, searches, calls>>

GetProfile(c) ==
    /\ call[c].pc = "profile"
    /\ IF Owns(call[c].user, call[c].profile)
       THEN call' = [call EXCEPT ![c].pc = "insert", ![c].edits = EditsOf(call[c].profile)]
       ELSE RefuseCall(c, "not found")
    /\ UNCHANGED <<profiles, searches, calls>>

\* The INSERT of what was read before; the unique index and the foreign key decide.
InsertSearch(c) ==
    /\ call[c].pc = "insert"
    /\ \/ /\ SearchWithKey(call[c].user, call[c].key) # {}
          /\ RefuseCall(c, "unique violation") /\ UNCHANGED searches
       \/ /\ SearchWithKey(call[c].user, call[c].key) = {} /\ profiles[call[c].profile] = None
          /\ RefuseCall(c, "foreign key violation") /\ UNCHANGED searches
       \/ /\ SearchWithKey(call[c].user, call[c].key) = {} /\ profiles[call[c].profile] # None
          /\ searches' = Append(searches, [owner |-> call[c].user, profile |-> call[c].profile,
                                           edits |-> call[c].edits, key |-> call[c].key])
          /\ Return(c, Len(searches) + 1)
    /\ UNCHANGED <<profiles, calls>>

\* The answer is lost, or the process dies between two queries.
Abandon(c) ==
    /\ call[c].pc # "idle"
    /\ call' = [call EXCEPT ![c] = NoCall]
    /\ UNCHANGED <<profiles, searches, calls>>

IntakeNext ==
    \/ \E user \in Users :
        \/ CreateServiceProfile(user)
        \/ \E p \in DOMAIN profiles :
            \/ UpdateServiceProfile(user, p) \/ DeleteServiceProfile(user, p)
            \/ \E c \in Callers, key \in SearchKeys \cup {None} : Ask(c, user, p, key)
    \/ \E c \in Callers :
        FindByIdempotencyKey(c) \/ GetProfile(c) \/ InsertSearch(c) \/ Abandon(c)

IntakeSpec == IntakeInit /\ [][IntakeNext]_intakeVars

--------------------------------------------------------------------------
(* Properties.                                                             *)

\* Whoever is answered with a Search gets one of his own, for the profile and the key he
\* asked with; when his call made it, it is a copy of what the profile said at some moment
\* of the call, whoever edited it meanwhile (createSearch, DEC-007).
SearchFitsRequest ==
    \A c \in Callers : (call[c].pc = "done" /\ call[c].answer = "ok") =>
        LET s == searches[call[c].search] IN
        /\ s.owner = call[c].user /\ s.profile = call[c].profile /\ s.key = call[c].key
        /\ call[c].edits # None => s.edits \in call[c].edited..EditsOf(call[c].profile)

\* "A sequential retry IS handled correctly": a call that begins when there is a Search
\* for its key gets that very Search, or a conflict when it asks for another profile; the
\* raw unique violation is met only by calls that overlap the one that made the Search,
\* and a conflict by nobody who asks for the same thing (createSearch).
RetriesAreHonoured ==
    \A c \in Callers : call[c].pc = "done" =>
        LET made == SearchWithKey(call[c].user, call[c].key)
            before == {s \in made : s <= call[c].began}
        IN /\ before # {} => \/ call[c].answer = "ok" /\ call[c].search \in before
                             \/ call[c].answer = "conflict"
           /\ call[c].answer = "unique violation" => made \ before # {}
           /\ call[c].answer = "conflict" =>
                \E s \in made : searches[s].profile # call[c].profile

\* No Search is left without the profile it came from, although that may be deleted between
\* the moment a call reads it and the moment it inserts, and the two have one owner
\* (migration 0014, "no orphan/no silently-nulled reference").
LineageIsKept ==
    \A s \in DOMAIN searches :
        /\ Owns(searches[s].owner, searches[s].profile)
        /\ searches[s].edits <= EditsOf(searches[s].profile)

\* What createSearch promises whatever calls, edits, deletions and retries interleave.
SearchIntakeHolds == IntakeTypeOK /\ SearchFitsRequest /\ RetriesAreHonoured /\ LineageIsKept
=============================================================================
