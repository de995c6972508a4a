-------------------------- MODULE MC_DeviceSelector --------------------------
(* Model-checking instance of DeviceSelector: names of up to three         *)
(* characters, the same with the ipvlan- prefix, and patterns of up to two *)
(* characters.                                                             *)
EXTENDS DeviceSelector

NameChars == {"e", "0", "x"}

\* The sequences over S of length at most k.
Words(S, k) == UNION {[1..m -> S] : m \in 0..k}

MCHosts ==
    Words(NameChars, 3) \cup {IpvlanPrefix \o s : s \in Words(NameChars, 2)}

\* Patterns a deployment sets: letters and digits only.
MCPlainPatterns == Words({"e", "0"}, 2)

\* Patterns that carry regexp metacharacters.
MCMetaPatterns == Words({"e", ".", "|"}, 2)
=============================================================================
