----------------------------- MODULE Bandwidth -----------------------------
(***************************************************************************)
(* How the Usenet connections are shared between streams and downloads     *)
(* (bandwidthScheduler.ts, policyService.ts, getAllowedStreamingConnections *)
(* of mountedStream.service.ts).  n is the number of streams a listing     *)
(* counts (Counted of StreamSessions); the allowances are what the two     *)
(* pools read (allowed of NntpPool and of SegmentStream).                  *)
(***************************************************************************)
EXTENDS Integers

\* The policies after normalizePolicyConnectionBudgets: at least one
\* connection in all, and neither side may be promised more.
Policies ==
  {p \in [total : Nat \ {0}, streaming : Nat, downloads : Nat, priority : 0..100] :
     p.streaming <= p.total /\ p.downloads <= p.total}

Lesser(a, b) == IF a <= b THEN a ELSE b
Greater(a, b) == IF a >= b THEN a ELSE b
Clamp(value, low, high) == Greater(low, Lesser(high, value))

\* floor(total * (priority / 100)) in floating point: the exact floor, or one
\* less where the product is a whole number that is not reached.
Shares(p) ==
  {q \in 0..p.total : 100 * q <= p.total * p.priority /\ p.total * p.priority <= 100 * (q + 1)}

Reserved(n, share) == IF n > 0 THEN Greater(1, share) ELSE 0

\* allocation.streaming of getBandwidthStatus.
Streaming(p, n, share) == Clamp(Lesser(p.streaming, Reserved(n, share)), 0, p.total)

\* The connections a download may have at all.
DownloadCap(p, n, share) ==
  Lesser(p.total, p.downloads + Greater(0, p.streaming - Streaming(p, n, share)))
Remaining(p, n, share) == Greater(0, p.total - (IF n > 0 THEN Streaming(p, n, share) ELSE 0))
Maintenance(p) == IF p.downloads > 0 THEN 1 ELSE 0

\* allocation.downloads: two at most while somebody streams.
Downloads(p, n, share) ==
  LET cap == DownloadCap(p, n, share)
      left == Remaining(p, n, share)
  IN IF n > 0 THEN Clamp(Lesser(2, Lesser(p.downloads, left)), 0, cap)
              ELSE Clamp(Lesser(cap, Greater(Maintenance(p), left)), 0, cap)

\* What the streaming pool computes for itself.
PoolAllowance(p, n, share) ==
  Clamp(Lesser(p.streaming, IF Reserved(n, share) = 0 THEN p.streaming ELSE Reserved(n, share)),
        1, p.streaming)
=============================================================================
