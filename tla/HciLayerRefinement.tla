------------------------- MODULE HciLayerRefinement -------------------------
(* HciLayer implements CommandService: the pending commands are those in the *)
(* queue and those whose enqueue_command has not run yet.                    *)
EXTENDS HciLayer

QueuedIds(queue) == {queue[n].id : n \in 1 .. Len(queue)}
PostedIds(closures) ==
  {closures[n].entry.id :
     n \in {m \in 1 .. Len(closures) : closures[m].run = "enqueue_command"}}

\* The debug command of a timeout is the layer's own, no client waits for it.
Pending(queue, closures) == (QueuedIds(queue) \cup PostedIds(closures)) \ {DebugId}
Numbers(answers) == [n \in 1 .. Len(answers) |-> answers[n].id]

Over == fate # "alive" \/ life # "running"
ServiceState ==
  IF Over THEN "over" ELSE IF hci_abort_alarm_ # "null" THEN "failing" ELSE "serving"
ServicePending == IF Over THEN {} ELSE Pending(command_queue_, tasks)

Service == INSTANCE CommandService WITH
  state <- ServiceState, pending <- ServicePending, done <- Numbers(answered)

\* Clients see an ordered service: answers in the order of posting, nothing
\* skipped or repeated, nothing flushed but by a timeout that dooms the process.
ServesInOrder == Service!Spec

=============================================================================
