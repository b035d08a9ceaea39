----------------------------- MODULE StatusFeed -----------------------------
(***************************************************************************)
(* What a terminal control promises the sidebar about its status: a source *)
(* that changes by itself, and a view the sidebar derives a row from.  The *)
(* feed is stale when the view may differ from the source; a stale feed is *)
(* always refreshed again, unless the control is closed.                   *)
(***************************************************************************)
VARIABLES source, view, stale, open

feedVars == <<source, view, stale, open>>

FeedInit ==
    /\ view = source
    /\ stale = FALSE
    /\ open = TRUE

\* The program, the shell or the connection gives the source a new value,
\* which may be any.
Publish ==
    /\ stale' = TRUE
    /\ UNCHANGED <<view, open>>

\* The sidebar reads the status.  Events that are still queued keep it stale.
Refresh ==
    /\ open
    /\ view' = source
    /\ stale' \in BOOLEAN
    /\ UNCHANGED <<source, open>>

CloseFeed ==
    /\ open' = FALSE
    /\ UNCHANGED <<source, view, stale>>

FeedNext == Publish \/ Refresh \/ CloseFeed

FeedSpec == FeedInit /\ [][FeedNext]_feedVars
=============================================================================
