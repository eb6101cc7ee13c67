------------------------------- MODULE AuditLog -------------------------------
(* The audit log as its readers know it: AuditLog.append of src/aegis/audit.py.
   One event at a time is put at the end, naming the hash of the event before
   it, and no event is ever changed or taken away. AuditChain implements this on
   a database that several processes write.                                  *)
EXTENDS Naturals, Sequences

CONSTANTS Hashes, Genesis

VARIABLE events   \* the sequence of [prev, hash]

Init == events = <<>>

LastHash == IF events = <<>> THEN Genesis ELSE events[Len(events)].hash

AppendEvent(h) == events' = Append(events, [prev |-> LastHash, hash |-> h])

Next == \E h \in Hashes : /\ \A i \in DOMAIN events : events[i].hash # h
                          /\ AppendEvent(h)

Spec == Init /\ [][Next]_events
=============================================================================
