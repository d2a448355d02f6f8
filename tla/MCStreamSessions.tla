-------------------------- MODULE MCStreamSessions --------------------------
(* Instances of StreamSessions for TLC; and Bandwidth, which shares the     *)
(* connections among the streams that a listing counts, on small policies.  *)
EXTENDS StreamSessions
Shared == INSTANCE Bandwidth

Small == [total : 1..5, streaming : 0..5, downloads : 0..5, priority : {0, 1, 50, 70, 100}]

\* With or without streams, both sides get what the policies promise at most,
\* lend what the other one leaves, and stay within the connections there are,
\* save a pool without a promise: it gives its one connection.
ASSUME BothSidesFit ==
  \A p \in {q \in Small : q.streaming <= q.total /\ q.downloads <= q.total} : \A n \in 0..2 :
    \A share \in Shared!Shares(p) :
      LET streams == Shared!PoolAllowance(p, n, share)
          downloads == Shared!Downloads(p, n, share)
      IN /\ streams \in 1..Shared!Greater(1, p.streaming)
         /\ downloads \in 0..p.total
         /\ n > 0 /\ p.streaming > 0 => streams + downloads <= p.total /\ streams = Shared!Streaming(p, n, share)
         /\ n = 0 => downloads = Shared!Lesser(p.total, p.downloads + p.streaming)
=============================================================================
