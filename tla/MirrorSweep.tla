----------------------------- MODULE MirrorSweep ----------------------------
(***************************************************************************)
(* OrderMirror with a history of what each poll has gone through: what a   *)
(* poll leaves behind when it ends, whatever other polls and requests did  *)
(* meanwhile.  It is what makes polling enough: the rows that one poll     *)
(* inserts, the next one closes.  The history watches the backend and      *)
(* never constrains it.                                                    *)
(***************************************************************************)
EXTENDS OrderMirror

\* The latest poll of each poller: the events it fetched, log[oldest] to
\* log[newest], and the orders it owes their closing status, those it fetched a
\* closing event of that had a row when it began.
VARIABLE sweep

sweepVars == <<vars, sweep>>

NoSweep == [oldest |-> 1, newest |-> 0, owed |-> {}]

SweepInit == Init /\ sweep = [p \in Pollers |-> NoSweep]

Closes(i, o) == log[i].type \in Closing /\ log[i].order = o

\* The events that the latest poll of p is done with.
Done(p) ==
    {i \in sweep[p].oldest..sweep[p].newest : poll[p].step = "idle" \/ i > poll[p].at}

\* The orders whose row a request writes after the poll of p is done with them.
Retaken(p) ==
    {o \in sweep[p].owed : /\ call' # call /\ rows'[o] # rows[o]
                           /\ \E i \in Done(p) : Closes(i, o)}

\* A poll that meets an error or a restart is not counted.
Watch(p) ==
    IF poll'[p] = poll[p] THEN [sweep[p] EXCEPT !.owed = @ \ Retaken(p)]
    ELSE IF faults' # faults THEN NoSweep
    ELSE IF poll[p].step = "idle"
         THEN LET fetched == poll'[p].floor..poll'[p].at
              IN [oldest |-> poll'[p].floor, newest |-> poll'[p].at,
                  owed |-> {o \in OrderIds : HasRow(o) /\ \E i \in fetched : Closes(i, o)}]
         ELSE sweep[p]

SweepNext == Next /\ sweep' = [p \in Pollers |-> Watch(p)]

SweepSpec == SweepInit /\ [][SweepNext]_sweepVars

-----------------------------------------------------------------------------
\* pollEvents and handleOrderCreated: every creation a poll is done with has a
\* row, of this poll or of another that was faster.
SweepCreates ==
    \A p \in Pollers : \A i \in Done(p) :
        log[i].type = "order-created" => HasRow(log[i].order)

\* handleOrderConfirmed, handleOrderCancelled and handleOrderRefunded: every row
\* that was there when a poll began has the status of the closing event that the
\* poll is done with, unless a request wrote it since; although the events come
\* newest first, and the row may have been anything before.
SweepCloses ==
    \A p \in Pollers : \A i \in Done(p) :
        log[i].type \in Closing /\ log[i].order \in sweep[p].owed =>
            rows[log[i].order].status = Target[log[i].type]

=============================================================================
