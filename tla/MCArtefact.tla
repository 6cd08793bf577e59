----------------------------- MODULE MCArtefact -----------------------------
(* A small instance of Artefact for TLC.                                    *)
EXTENDS Artefact, TLC

CONSTANTS w1, w2, k1, k2, f1, f2

MCWasms == {w1, w2}
MCKeys  == {k1, k2}
MCFiles == {f1, f2}

\* Only their places in the files, the trust root and the archives below tell
\* wasms, keys and files apart.
MCSymmetry == Permutations(MCWasms) \cup Permutations(MCKeys)
                                    \cup Permutations(MCFiles)

\* Archives that another tool made, of wasms v and w and a signature of v: a
\* manifest with its own wasm and another wasm behind that, so that the first
\* one's hash fits and the last one's does not; a manifest with its own wasm
\* and a signature of the other; wasm and manifest given twice, the later ones
\* fitting; and a later major version of the format, with and without a
\* manifest of this one behind it.
MCForeignOf(k, v, w) ==
    LET sig        == [key |-> k, over |-> v]
        Closed(es) == [entries |-> es, readable |-> TRUE]
        M(x)       == Entry("manifest.json", Manifest(x, Some(sig), 0))
        Later(x) ==
            Entry("manifest.json", [Manifest(x, Some(sig), 0) EXCEPT !.major = 2])
        W(x)       == Entry("plugin.wasm", x)
        S          == Entry("plugin.sig", sig)
    IN  {Closed(<<M(w), W(w), W(v), S>>),
         Closed(<<M(w), W(w), S>>),
         Closed(<<M(w), W(w), W(v), M(v), S>>),
         Closed(<<Later(v), W(v), S>>),
         Closed(<<Later(v), M(v), W(v), S>>)}

MCForeign == UNION {MCForeignOf(k, v, w) : k \in MCKeys, v \in MCWasms, w \in MCWasms}
=============================================================================
