----------------------------- MODULE MCRoundTrip -----------------------------
EXTENDS RoundTrip, MCStreamWriter
MCBytes == {"{", "}", "[", "]", "(", ")", "W", "n", "t", "f", "c", "I", "J", "K", "L",
            "i", "j", "k", "l", "d", "D", "s", "b"}
=============================================================================
