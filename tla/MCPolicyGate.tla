---------------------------- MODULE MCPolicyGate ----------------------------
(* PolicyGate on a small instance.                                           *)
EXTENDS PolicyGate

\* Keys of the root issuer, of its successor, and of somebody else.
RootKey  == 1
NextKey  == 2
OtherKey == 3

Cpu      == <<"cpu", "local", FALSE>>
Critical == <<"critical", "device", TRUE>>

Weak   == [id |-> 1, requirements |-> {"portable"}]
Strong == [id |-> 2, requirements |-> {"portable", "hardware"}]

Bind1(class, contract, policy) ==
    [class |-> class, kind |-> contract[1], target |-> contract[2], side |-> contract[3], policy |-> policy]
Man(generation, bindings) == [generation |-> generation, bindings |-> bindings]

MCRoot == SignManifest(Man(1, <<Bind1(1, Cpu, Weak), Bind1(2, Critical, Strong)>>), RootKey)

\* The second generation hands over to the next key and asks more of the first
\* operation; or asks less of the second one; or exchanges the contracts.
Stronger  == SignManifest(Man(2, <<Bind1(1, Cpu, Strong), Bind1(2, Critical, Strong)>>), NextKey)
Weaker    == SignManifest(Man(2, <<Bind1(1, Cpu, Weak), Bind1(2, Critical, Weak)>>), NextKey)
Exchanged == SignManifest(Man(2, <<Bind1(1, Critical, Weak), Bind1(2, Cpu, Strong)>>), RootKey)
\* The third: the same again, the weak one again, and one that a stranger signed.
Third      == SignManifest(Man(3, <<Bind1(1, Cpu, Strong), Bind1(2, Critical, Strong)>>), NextKey)
ThirdWeak  == SignManifest(Man(3, <<Bind1(1, Cpu, Weak), Bind1(2, Critical, Weak)>>), NextKey)
\* The fourth: weak still; branches that met in the third generation share its head.
FourthWeak == SignManifest(Man(4, <<Bind1(1, Cpu, Weak), Bind1(2, Critical, Weak)>>), NextKey)
Stranger   == SignManifest(Man(2, <<Bind1(1, Cpu, Weak), Bind1(2, Critical, Weak)>>), OtherKey)
\* A signed manifest that was edited, and one with an ambiguous contract.
Edited     == [Stronger EXCEPT !.manifest = Weaker.manifest]
Ambiguous  == SignManifest(Man(2, <<Bind1(1, Cpu, Weak), Bind1(2, Critical, Strong), Bind1(3, Critical, Weak)>>), NextKey)

\* Manifests by number, and the rotations there are for a transition: those that the
\* key holder can be made to sign, one signed with another key, one that conceals
\* what it weakens and was signed by no holder of the issuing key, and one with the
\* permission added to it afterwards.
Signed == <<MCRoot, Stronger, Weaker, Exchanged, Stranger, Edited, Ambiguous, Third, ThirdWeak, FourthWeak>>
Seconds == 2..7
Thirds  == 8..9

MCRotation(a, b, how) ==
    CASE how = "plain"   -> SignRotation(a, b, a.key, FALSE)
      [] how = "allowed" -> SignRotation(a, b, a.key, TRUE)
      [] how = "forged"  -> Rotation(a, b, OtherKey, TRUE, Weakened(a.manifest, b.manifest))
      [] how = "concealed" -> Rotation(a, b, OtherKey, FALSE, {})
      [] how = "added" -> [Rotation(a, b, a.key, FALSE, {}) EXCEPT
                               !.material.allow = TRUE,
                               !.material.weakened = Weakened(a.manifest, b.manifest)]
Hows == {"plain", "allowed", "forged", "concealed", "added"}

Names ==
    {[manifests |-> <<m>>, rotations |-> <<>>] : m \in {1} \cup Seconds} \cup
    {[manifests |-> <<p[1], p[2]>>, rotations |-> <<h>>] :
        p \in ({1} \cup Seconds) \X (Seconds \cup Thirds), h \in Hows} \cup
    {[manifests |-> <<1, 2, 8>>, rotations |-> <<"plain", h>>] : h \in {"plain", "forged"}} \cup
    {[manifests |-> <<1, 2, 9>>, rotations |-> <<"plain", h>>] : h \in Hows} \cup
    {[manifests |-> <<1, p[1], 9, 10>>, rotations |-> <<p[2], p[3], "plain">>] :
        p \in {<<2, "plain", "allowed">>, <<3, "allowed", "plain">>}}

\* (<<>> \o s is s, evaluated once.)
ChainNamed(name) ==
    [manifests |-> <<>> \o [i \in DOMAIN name.manifests |-> Signed[name.manifests[i]]],
     rotations |-> <<>> \o [i \in DOMAIN name.rotations |->
         MCRotation(Signed[name.manifests[i]], Signed[name.manifests[i + 1]], name.rotations[i])]]

MCPresented ==
    [name \in {x \in Names : \A i \in DOMAIN x.rotations : ChainNamed(x).rotations[i] # None} |-> ChainNamed(name)] @@ <<>>

\* What callers say of their operation: the truth, with the class or without it, or
\* the critical operation under the class of the other.
Request(contract, inputs, declared) ==
    [kind |-> contract[1], target |-> contract[2], side |-> contract[3], inputs |-> inputs, declared |-> declared]
MCRequests == {Request(Cpu, 1, NoId), Request(Critical, 1, NoId), Request(Critical, 2, 1)}
MCPolicies == {Weak}
MCEvidences ==
    {[proven |-> {"portable"}, source |-> 1, discovery |-> NoId, portable |-> 1],
     [proven |-> {"portable", "hardware"}, source |-> 1, discovery |-> NoId, portable |-> 1]}
MCHandlers == {Cpu, Critical}

Symmetry == Permutations(Callers)
=============================================================================
