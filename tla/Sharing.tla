------------------------------- MODULE Sharing ------------------------------
(***************************************************************************)
(* Grants of a sheet or of a row to a person, inside the organization or   *)
(* outside it (lib/ask/sharing.ts, and api/shares, which asks only that a  *)
(* person who is a worker calls).  An outsider becomes a worker with the   *)
(* first grant to their address.                                           *)
(***************************************************************************)
EXTENDS Grid

CONSTANTS
    Outsider,  \* people of other organizations, by their addresses
    Member     \* Member[w]: the scopes of the memberships of a worker

VARIABLES
    shares,  \* shares in order of creation
    guests   \* the outsiders who have become workers

Rank == [read |-> 1, comment |-> 2, edit |-> 3]

ASSUME SharingAssumption ==
    /\ Outsider \cap Worker = {}
    /\ \A c \in Call : Request[c].op = "share" => Request[c].access \in DOMAIN Rank

sharingVars == <<shares, guests>>

InitSharing == shares = <<>> /\ guests = {}

\* A person who is signed in.
IsPerson(w) == w \in Person \cup guests

Membership(w) == IF w \in DOMAIN Member THEN Member[w] ELSE {}

\* sharedWith(): whether or not a share has expired.
SharedWith(w) == {i \in DOMAIN shares : shares[i].to = w /\ ~shares[i].revoked}

\* scopesOf().
ScopesOf(w) == {"org"} \cup Membership(w) \cup UNION {shares[i].scopes : i \in SharedWith(w)}

-----------------------------------------------------------------------------
(* share().                                                                *)

StartShare(c) ==
    /\ Asks(c, "share")
    /\ Become(c, IF IsPerson(Request[c].by) THEN [pc |-> "reach"] ELSE Done)
    /\ UNCHANGED <<sheet, sharingVars>>

\* Mutant: the scopes that are asked for are granted.
ReachAsked(c) == Become(c, [pc |-> "grantee", scopes |-> Request[c].scopes])

\* A grant of no scopes in particular is of all that the granter holds.
Reach(c) ==
    LET held == ScopesOf(Request[c].by)
        wanted == IF Request[c].scopes = {} THEN held ELSE Request[c].scopes
    IN  Become(c, IF wanted \subseteq held THEN [pc |-> "grantee", scopes |-> wanted] ELSE Done)

ReadReach(c) ==
    /\ Job(c).pc = "reach"
    /\ Reach(c)
    /\ UNCHANGED <<sheet, alone, sharingVars>>

FindGrantee(c) ==
    LET to == Request[c].to IN
    /\ Job(c).pc = "grantee"
    /\ Become(c, IF to \in Worker \cup guests THEN [Job(c) EXCEPT !.pc = "grant"]
                 ELSE IF Request[c].byAddress THEN [Job(c) EXCEPT !.pc = "invite"]
                 ELSE Done)
    /\ UNCHANGED <<sheet, alone, sharingVars>>

\* The address is the key of the worker, and a second insert throws.
Invite(c) ==
    LET to == Request[c].to IN
    /\ Job(c).pc = "invite"
    /\ guests' = guests \cup {to}
    /\ Become(c, IF to \in guests THEN [pc |-> "threw"] ELSE [Job(c) EXCEPT !.pc = "grant"])
    /\ UNCHANGED <<sheet, alone, shares>>

Grant(c) ==
    LET r == Request[c] IN
    /\ Job(c).pc = "grant"
    /\ shares' = Append(shares, [subject |-> r.subject, to |-> r.to, access |-> r.access,
                                 scopes |-> Job(c).scopes, by |-> r.by, revoked |-> FALSE,
                                 expires |-> r.expires, expired |-> FALSE])
    /\ Become(c, Done)
    /\ UNCHANGED <<sheet, alone, guests>>

\* Anyone's share is taken back by any person.
RevokeShare(c) ==
    LET r == Request[c] IN
    /\ Asks(c, "unshare")
    /\ shares' = [i \in DOMAIN shares |->
                     IF i = r.share /\ IsPerson(r.by) THEN [shares[i] EXCEPT !.revoked = TRUE] ELSE shares[i]]
    /\ Become(c, Done)
    /\ UNCHANGED <<sheet, guests>>

SharingStep(c) ==
    \/ StartShare(c) \/ ReadReach(c) \/ FindGrantee(c) \/ Invite(c) \/ Grant(c)
    \/ RevokeShare(c)

\* The instant passes until which a share was given.
Expire(i) ==
    /\ shares[i].expires
    /\ ~shares[i].expired
    /\ shares' = [shares EXCEPT ![i].expired = TRUE]
    /\ UNCHANGED <<sheet, call, alone, guests>>

-----------------------------------------------------------------------------
(* accessTo().                                                             *)

\* A sheet has an owning organization; a row has one, and a sheet that it sits in, where
\* it is a contract and not where it is a record.
Owned(subject) == subject = "sheet" \/ shape = "plan"

\* A member's organization owns what is owned.  A row is reached through the shares of
\* the row, or else of its sheet.
AccessTo(w, subject) ==
    LET Of(s) == {shares[i].access : i \in {j \in SharedWith(w) :
                                               shares[j].subject = s /\ ~shares[j].expired}}
        held == IF Of(subject) # {} \/ ~Owned(subject) THEN Of(subject) ELSE Of("sheet")
    IN  IF w \notin Worker \cup guests THEN "none"
        ELSE IF w \in Worker /\ Membership(w) # {} /\ Owned(subject) THEN "edit"
        ELSE IF held = {} THEN "none"
        ELSE CHOOSE a \in held : \A b \in held : Rank[b] <= Rank[a]

=============================================================================
