------------------------ MODULE MCConnectionDirectory ------------------------
(* Instances of ConnectionDirectory for TLC. *)
EXTENDS ConnectionDirectory, TLC

CONSTANTS h1, h2, f1, o1, dh, df, do, owner, friend, s1, p1, p2, t1, t2

MCDeviceOf(c) == CASE c \in {h1, h2} -> dh [] c = f1 -> df [] OTHER -> do
MCPersonOf(d) == IF d = df THEN friend ELSE owner
MCHostDevice(s) == dh

\* What comes together: revocation and a viewer; the limits; announcing;
\* hiding; calls to a computer that connects again.
MCLoads == {{h1, f1, df, p1, t1, t2}, {h1, f1, dh, p1, t1}, {h1, f1, p1, p2, "relay"},
            {h1, f1, o1, "stop"}, {h1, h2, "presence", "stop"}, {h1, h2, "hide"},
            {h1, h2, o1, p1, "call"}, {h1, o1, p1, p2, "call", "relay"}}

=============================================================================
