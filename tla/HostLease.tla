------------------------------- MODULE HostLease -------------------------------
(***************************************************************************)
(* docs/sejong/scripts/host_coordination.py: the last heartbeat of each    *)
(* host, and the leases that let one host at a time write to a repository. *)
(* Each of the two files is rewritten whole under a flock of its own.  The *)
(* host status a lease is asked with is the caller's, read before.         *)
(***************************************************************************)
EXTENDS Naturals, Sequences

CONSTANTS Hosts, Repos, Tickets, LeaseIds, Callers, MaxTime, Nil

VARIABLES
  heartbeat,   \* hosts.json: the status in the last heartbeat of each host
  leases,      \* write-leases.json
  asking,      \* the request each caller has prepared, or Nil
  now

vars == <<heartbeat, leases, asking, now>>

Statuses == {"connected", "disconnected", "unknown"}

Init ==
  /\ heartbeat = [h \in Hosts |-> "unknown"] /\ leases = <<>>
  /\ asking = [c \in Callers |-> Nil] /\ now = 0

\* record_heartbeat: the host's record is dropped and added again.
RecordHeartbeat(h, status) ==
  /\ heartbeat' = [heartbeat EXCEPT ![h] = status]
  /\ UNCHANGED <<leases, asking, now>>

Prepare(c, id, t, h, r, ttl) ==
  /\ asking[c] = Nil
  /\ asking' = [asking EXCEPT ![c] = [id |-> id, ticket |-> t, host |-> h, repo |-> r,
                                      expires |-> now + ttl, status |-> heartbeat[h]]]
  /\ UNCHANGED <<heartbeat, leases, now>>

Active(r) == {i \in DOMAIN leases : leases[i].active /\ leases[i].repo = r}

\* Mutant: what has expired is free.
FreeWhenExpired(r) == \A i \in Active(r) : leases[i].expires <= now
\* An expired lease still needs recovery; the caller only learns another error code.
Free(r) == Active(r) = {}

Acquire(c) ==
  LET a == asking[c] IN
  /\ a # Nil
  /\ leases' = IF /\ a.status = "connected"
                  /\ \A i \in DOMAIN leases : leases[i].id # a.id
                  /\ Free(a.repo)
               THEN Append(leases, [id |-> a.id, ticket |-> a.ticket, host |-> a.host,
                                    repo |-> a.repo, expires |-> a.expires, active |-> TRUE])
               ELSE leases
  /\ asking' = [asking EXCEPT ![c] = Nil]
  /\ UNCHANGED <<heartbeat, now>>

RecoverRelease(id, t) ==
  /\ \E i \in DOMAIN leases :
       /\ leases[i].id = id /\ leases[i].active /\ leases[i].ticket = t
       /\ leases' = [leases EXCEPT ![i].active = FALSE]
  /\ UNCHANGED <<heartbeat, asking, now>>

Tick == now < MaxTime /\ now' = now + 1 /\ UNCHANGED <<heartbeat, leases, asking>>

Next ==
  \/ Tick
  \/ \E h \in Hosts, s \in Statuses : RecordHeartbeat(h, s)
  \/ \E c \in Callers : \/ Acquire(c)
                        \/ \E id \in LeaseIds, t \in Tickets, h \in Hosts, r \in Repos :
                             Prepare(c, id, t, h, r, 1)
  \/ \E id \in LeaseIds, t \in Tickets : RecoverRelease(id, t)

Spec == Init /\ [][Next]_vars

\* However requests race, hosts disconnect and leases expire, a repository has one active
\* write lease at a time, and no id is given twice, also after its lease has ended
\* (WriteLeaseStore.acquire:124-163, recover_release:165-192).
OneWriterPerRepo ==
  \A i, j \in DOMAIN leases :
    i # j => /\ leases[i].id # leases[j].id
             /\ leases[i].active /\ leases[j].active => leases[i].repo # leases[j].repo
================================================================================
