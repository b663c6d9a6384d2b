---------------------------- MODULE InstallIdentity ----------------------------
(***************************************************************************)
(* core_install_identity.py: a file that says which commit and content an  *)
(* installation came from.  `write` and `verify` take the same walk: git's *)
(* commit and status, then the managed surfaces of the checkout, then those *)
(* of the installation.  Both work without a lock on either.               *)
(***************************************************************************)
EXTENDS Naturals, FiniteSets

CONSTANTS
  Surfaces,   \* managed files, in the checkout and installed
  Versions,   \* what one may contain
  Tree,       \* the content of every commit
  Nil

VARIABLES
  head, work,  \* the checkout: its commit, and the content of each surface
  installed,   \* the installed content of each surface
  identity,    \* the identity file, or Nil
  walk,        \* the walk of the command under way, or Nil
  verdict,     \* what `verify` said last, while nothing has changed since, or Nil
  intact       \* has nothing changed since the walk the identity was written from began?

vars == <<head, work, installed, identity, walk, verdict, intact>>

Commits == DOMAIN Tree

Found == [Surfaces -> Versions \cup {Nil}]
Identities == [commit : Commits, clean : BOOLEAN, source : Found, installed : Found]

ConstantsAssumption ==
  /\ Surfaces # {} /\ Nil \notin BOOLEAN /\ Nil \notin Identities
  /\ Tree \in [Commits -> [Surfaces -> Versions]]

Init ==
  /\ head \in Commits /\ work = Tree[head] /\ installed \in {[s \in Surfaces |-> Nil], work}
  /\ identity = Nil /\ walk = Nil /\ verdict = Nil /\ intact = FALSE

\* Ghosts: what was seen is no longer sure to be so.
Changes ==
  /\ verdict' = Nil /\ intact' = FALSE
  /\ walk' = IF walk = Nil THEN Nil ELSE [walk EXCEPT !.quiet = FALSE]
  /\ UNCHANGED identity

Edit(s, v) == work' = [work EXCEPT ![s] = v] /\ Changes /\ UNCHANGED <<head, installed>>
Checkout(c) == head' = c /\ work' = Tree[c] /\ Changes /\ UNCHANGED installed
Commit(c) == work = Tree[c] /\ head' = c /\ Changes /\ UNCHANGED <<work, installed>>
Install(s) == installed' = [installed EXCEPT ![s] = work[s]] /\ Changes /\ UNCHANGED <<head, work>>
Tamper(s, v) == installed' = [installed EXCEPT ![s] = v] /\ Changes /\ UNCHANGED <<head, work>>

\* discover_source_git_identity: two git commands, one after the other.
BeginWalk(command) ==
  /\ walk = Nil
  /\ walk' = [command |-> command, commit |-> head, clean |-> Nil,
              source |-> [s \in Surfaces |-> Nil], installed |-> [s \in Surfaces |-> Nil],
              todo |-> Surfaces, quiet |-> TRUE]
  /\ UNCHANGED <<head, work, installed, identity, verdict, intact>>

GitStatus ==
  /\ walk # Nil /\ walk.clean = Nil
  /\ walk' = [walk EXCEPT !.clean = (work = Tree[head])]
  /\ UNCHANGED <<head, work, installed, identity, verdict, intact>>

\* snapshot_managed_surfaces of the checkout, surface by surface.
ReadSource(s) ==
  /\ walk # Nil /\ walk.clean # Nil /\ s \in walk.todo
  /\ walk' = [walk EXCEPT !.source[s] = work[s], !.todo = @ \ {s}]
  /\ UNCHANGED <<head, work, installed, identity, verdict, intact>>

\* ... and of the installation, whose surfaces must be there for `write`.
ReadInstalled ==
  /\ walk # Nil /\ walk.todo = {} /\ walk.installed = [s \in Surfaces |-> Nil]
  /\ walk' = IF walk.command = "write" /\ \E s \in Surfaces : installed[s] = Nil THEN Nil
             ELSE [walk EXCEPT !.installed = installed]
  /\ UNCHANGED <<head, work, installed, identity, verdict, intact>>

\* write_identity replaces the file; a process that dies leaves the old one.
WriteIdentity ==
  /\ walk # Nil /\ walk.command = "write" /\ walk.installed # [s \in Surfaces |-> Nil]
  /\ identity' = [commit |-> walk.commit, clean |-> walk.clean,
                  source |-> walk.source, installed |-> walk.installed]
  /\ intact' = walk.quiet /\ walk' = Nil /\ verdict' = Nil
  /\ UNCHANGED <<head, work, installed>>

\* Mutant: the commit and the tree state are taken from the identity.
SourceMatchesContent(w) == w.source = identity.source

SourceMatches(w) ==
  /\ w.commit = identity.commit /\ w.clean = identity.clean
  /\ w.source = identity.source
InstalledMatches(w) == w.installed = identity.installed

Inspect ==
  /\ walk # Nil /\ walk.command = "verify" /\ walk.todo = {}
  /\ \/ walk.installed # [s \in Surfaces |-> Nil]
     \/ \A s \in Surfaces : installed[s] = Nil
  /\ LET status == IF identity = Nil THEN "missing"
                   ELSE IF ~SourceMatches(walk) THEN "source_drift"
                   ELSE IF ~InstalledMatches(walk) THEN "installed_tampered"
                   ELSE "compatible" IN
     verdict' = [status |-> status, quiet |-> walk.quiet]
  /\ walk' = Nil
  /\ UNCHANGED <<head, work, installed, identity, intact>>

Dies == walk # Nil /\ walk' = Nil /\ UNCHANGED <<head, work, installed, identity, verdict, intact>>

Next ==
  \/ \E s \in Surfaces : \/ Install(s) \/ ReadSource(s)
                         \/ \E v \in Versions : Edit(s, v) \/ Tamper(s, v)
  \/ \E c \in Commits : Checkout(c) \/ Commit(c)
  \/ \E command \in {"write", "verify"} : BeginWalk(command)
  \/ GitStatus \/ ReadInstalled \/ WriteIdentity \/ Inspect \/ Dies

Spec == Init /\ [][Next]_vars

\* Whatever was edited, checked out or installed while an identity was written: a verify
\* that nothing overtook and that finds it compatible finds the checkout at its commit,
\* with the content of that commit if it says "clean", and the recorded installation; and
\* an identity whose own walk nothing overtook is compatible until something changes
\* (discover_source_git_identity:141-160, create_identity:196-231, inspect_identity:376-484).
CompatibleIsTrue ==
  verdict # Nil /\ verdict.quiet =>
    /\ verdict.status = "compatible" =>
         /\ head = identity.commit /\ (identity.clean => work = Tree[identity.commit])
         /\ installed = identity.installed
    /\ intact => verdict.status = "compatible"
================================================================================
