------------------------------ MODULE SsoPortal ------------------------------
(***************************************************************************)
(* BindingService.ResolveBinding of auth/sso over the paginated listings of *)
(* PortalClient: the accounts a token gives access to are listed, one is    *)
(* chosen, its roles are listed and one of them is chosen.  The Portal      *)
(* (external) has no snapshot: what it lists may change between two pages.  *)
(* An item is a record [account, role]; an account carries NoRole.          *)
(***************************************************************************)
EXTENDS Integers, Sequences, FiniteSets, SequencesExt

CONSTANTS
  Accounts, Roles,
  Blank,       \* an empty identifier
  NoRole,
  Directories, \* what the Portal may list
  PageSize,    \* defaultPageSize
  MaxPages,    \* maxPaginationPages
  MaxChanges   \* bound on the changes of the Portal's data

Items == [account : Accounts \cup {Blank}, role : Roles \cup {Blank, NoRole}]

ASSUME PortalAssumption ==
  /\ PageSize \in Nat \ {0} /\ MaxPages \in Nat \ {0} /\ MaxChanges \in Nat
  /\ Blank \notin Accounts \cup Roles /\ NoRole \notin Roles \cup {Blank}
  /\ Directories \subseteq [accounts : Seq(Items), roles : Seq(Items)]

VARIABLES
  directory, \* what the Portal would list now
  changes,
  listing,   \* the listing in progress
  binding    \* the ResolveBinding in progress

portalVars == <<directory, changes, listing, binding>>

NewListing == [pc |-> "page", page |-> 1, requests |-> 0, rows |-> <<>>,
               exact |-> TRUE]
NewBinding(a, r) == [pc |-> "accounts", account |-> a, role |-> r,
                     offered |-> {}]

PortalTypeOK ==
  /\ \A i \in 1..Len(directory.accounts) : directory.accounts[i] \in Items
  /\ \A i \in 1..Len(directory.roles) : directory.roles[i] \in Items
  /\ listing.pc \in {"page", "done", "failed"} /\ listing.page \in Nat \ {0}
  /\ binding.pc \in {"accounts", "roles", "done", "failed"}
  /\ binding.account \in Accounts \cup {Blank}
  /\ binding.role \in Roles \cup {Blank}

\* The flags --account-id and --role-name may be given or left out.
PortalInit ==
  /\ directory \in Directories /\ changes = 0
  /\ listing = NewListing
  /\ \E a \in Accounts \cup {Blank}, r \in Roles \cup {Blank} :
       binding = NewBinding(a, r)

\* No binding is being resolved.
PortalIdle ==
  /\ directory = [accounts |-> <<>>, roles |-> <<>>] /\ changes = 0
  /\ listing = [NewListing EXCEPT !.pc = "done"]
  /\ binding = [NewBinding(Blank, Blank) EXCEPT !.pc = "failed"]

\* The server is asked for the items of the listing in progress.
Listed == IF binding.pc = "accounts" THEN directory.accounts
          ELSE directory.roles

-----------------------------------------------------------------------------
(* ListAccounts and ListAccountRoles                                        *)

\* An answer of the Portal: honest, one that always promises more, or one
\* whose metadata is not that of the page that was asked for.
HonestPage ==
  LET first == (listing.page - 1) * PageSize + 1
      last == listing.page * PageSize
  IN  [total |-> Len(Listed), page |-> listing.page, size |-> PageSize,
       rows |-> SubSeq(Listed, first,
                       IF last < Len(Listed) THEN last ELSE Len(Listed))]
EndlessPage ==
  [HonestPage EXCEPT !.total = listing.page * PageSize + 1, !.rows = <<>>]
Pages ==
  {HonestPage, EndlessPage, [HonestPage EXCEPT !.page = @ + 1],
   [HonestPage EXCEPT !.size = 0], [HonestPage EXCEPT !.total = -1]}

ValidPageMetadata(p) ==
  p.total >= 0 /\ p.page > 0 /\ p.size > 0 /\ p.page = listing.page

\* computeNextToken: compares without a product that could overflow
MorePages(p) == p.total > 0 /\ p.page <= (p.total - 1) \div p.size

Listable == listing.requests < MaxPages

ListPage ==
  /\ listing.pc = "page" /\ Listable
  /\ \E p \in Pages :
       LET rows == listing.rows \o p.rows
           next == [listing EXCEPT !.requests = @ + 1, !.rows = rows,
                      !.exact = @ /\ p = HonestPage]
       IN  listing' = IF ~ValidPageMetadata(p)
                        THEN [next EXCEPT !.pc = "failed"]
                        ELSE IF MorePages(p)
                               THEN [next EXCEPT !.page = p.page + 1]
                               ELSE [next EXCEPT !.pc = "done"]
  /\ UNCHANGED <<directory, changes, binding>>

\* doPortalGet fails, or the page limit is exceeded.
ListFails ==
  /\ listing.pc = "page"
  /\ listing' = [listing EXCEPT !.pc = "failed"]
  /\ UNCHANGED <<directory, changes, binding>>

-----------------------------------------------------------------------------
(* ResolveBinding                                                           *)

NextListing == listing' = NewListing /\ UNCHANGED <<directory, changes>>

\* An explicit value, or what the selector returns, the list or not.
Choice(explicit, names) ==
  IF explicit # Blank THEN {explicit} ELSE names \cup {Blank}

ResolveAccount ==
  /\ binding.pc = "accounts" /\ listing.pc = "done"
  /\ LET usable == {i.account : i \in ToSet(listing.rows)} \ {Blank} IN
     \E a \in Choice(binding.account, Accounts) :
       IF a \in usable
         THEN /\ NextListing
              /\ binding' = [binding EXCEPT !.pc = "roles", !.account = a]
         ELSE /\ binding' = [binding EXCEPT !.pc = "failed"]
              /\ UNCHANGED <<directory, changes, listing>>

\* Mutant of UsableRoles: a role that names no account fits any.
UsableRolesOfAnyAccount ==
  {i \in ToSet(listing.rows) :
     i.role # Blank /\ i.account \in {binding.account, Blank}}

\* A role without a name, without an account or of another one is no choice.
UsableRoles ==
  {i \in ToSet(listing.rows) :
     i.role # Blank /\ i.account = binding.account}

ResolveRole ==
  /\ binding.pc = "roles" /\ listing.pc = "done"
  /\ \E r \in Choice(binding.role, Roles) :
       binding' = IF \E i \in UsableRoles : i.role = r
                    THEN [binding EXCEPT !.pc = "done", !.role = r,
                            !.offered = ToSet(listing.rows)]
                    ELSE [binding EXCEPT !.pc = "failed"]
  /\ UNCHANGED <<directory, changes, listing>>

ResolveFails ==
  /\ binding.pc \in {"accounts", "roles"} /\ listing.pc = "failed"
  /\ binding' = [binding EXCEPT !.pc = "failed"]
  /\ UNCHANGED <<directory, changes, listing>>

\* Somebody grants or revokes access while the listing is under way.
DirectoryChanges ==
  /\ changes < MaxChanges /\ binding.pc \in {"accounts", "roles"}
  /\ directory' \in Directories \ {directory}
  /\ changes' = changes + 1
  /\ listing' = [listing EXCEPT !.exact = listing.pc # "page" /\ @]
  /\ UNCHANGED binding

PortalStep ==
  ListPage \/ ListFails \/ ResolveAccount \/ ResolveRole \/ ResolveFails
PortalNext == PortalStep \/ DirectoryChanges
PortalSpec ==
  PortalInit /\ [][PortalNext]_portalVars /\ WF_portalVars(PortalStep)

-----------------------------------------------------------------------------
(* Properties                                                               *)

(***************************************************************************)
(* ListAccounts and ListAccountRoles (portal_client.go:111, :178) return    *)
(* every item once and in order, whatever the number of pages and however   *)
(* full the last one is, when nothing changes meanwhile; and a Portal that  *)
(* promises more for ever costs MaxPages requests.                          *)
(***************************************************************************)
ListingIsExact ==
  /\ listing.requests <= MaxPages
  /\ listing.pc = "done" /\ listing.exact /\ changes = 0 /\
       binding.pc \in {"accounts", "roles"} => listing.rows = Listed

(***************************************************************************)
(* ResolveBinding (service.go:74) binds a profile only to a role of the     *)
(* chosen account that the Portal has offered for it, also when the Portal  *)
(* lists roles of other accounts, incomplete ones, or changes between the   *)
(* two listings.                                                            *)
(***************************************************************************)
BindingIsOffered ==
  binding.pc = "done" =>
    [account |-> binding.account, role |-> binding.role] \in binding.offered

\* The resolution ends although the directory may never say that it is
\* complete (portal_client.go:451).
ResolutionEnds == <>(binding.pc \in {"done", "failed"})

(***************************************************************************)
(* What a login binds a profile to is one of the accounts and roles that    *)
(* the portal offers, listed completely and once each                       *)
(* (portal_client.go:123, service.go:168).                                  *)
(***************************************************************************)
BindingIsExact ==
  ListingIsExact /\ BindingIsOffered
=============================================================================
