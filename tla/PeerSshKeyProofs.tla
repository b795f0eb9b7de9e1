-------------------------- MODULE PeerSshKeyProofs --------------------------
(***************************************************************************)
(* Proofs about the key distribution of peer_georep-sshkey.py.            *)
(***************************************************************************)
EXTENDS PeerSshKey, TLAPS

\* Pair k of p is generated by the run under way and not yet complete:
\* its public key is missing until KeygenPub writes it.
Regenerating(p) == npc[p] \in {"remove", "keygen_priv", "keygen_pub"}

\* The pairs node-generate has passed on p in this run have a public key.
NodeInv(p) ==
    /\ Regenerating(p) => pub[p][nk[p]] = 0
    /\ npc[p] \in Working /\ nk[p] = 2 => pub[p][1] # 0
    /\ npc[p] = "keygen_pub" => priv[p][nk[p]] # 0
    /\ npc[p] = "read" => nk[p] = 2 /\ pub[p][2] # 0
    /\ npc[p] = "replied" => reply[p] = pub[p]
                            /\ pub[p][1] # 0 /\ pub[p][2] # 0

\* No public key without its private key of the same generation:
\* ssh-keygen saves the private key first, and Remove deletes both.
PubHasPriv ==
    \A p \in Peers, k \in KeyIdx : pub[p][k] # 0 => priv[p][k] = pub[p][k]

\* The inductive invariant behind CommonSecretValid.
KeyInv ==
    /\ TypeOK
    /\ PubHasPriv
    /\ \A p \in Peers : NodeInv(p)
    /\ \A e \in common : pub[e[1]][e[2]] = e[3] /\ e[3] # 0

LEMMA KeyInvInit == Init => KeyInv
BY PeerAssumption DEF Init, KeyInv, TypeOK, PubHasPriv, NodeInv, Regenerating,
                      Working, NodeSteps, KeyIdx

\* NextPair moves node-generate of p to pair 2: to its check after pair 1,
\* to the read after pair 2.
LEMMA NextPairEffect ==
    ASSUME TypeOK, NEW p \in Peers, NextPair(p)
    PROVE  /\ npc' = [npc EXCEPT ![p] = IF nk[p] = 1 THEN "check" ELSE "read"]
           /\ nk' = [nk EXCEPT ![p] = 2]
<1>1. CASE nk[p] = 1
    BY <1>1 DEF NextPair
<1>2. CASE nk[p] = 2
    <2>1. nk = [nk EXCEPT ![p] = 2]
        BY <1>2 DEF TypeOK
    <2>2. QED
        BY <1>2, <2>1 DEF NextPair
<1>3. QED
    BY <1>1, <1>2 DEF TypeOK, KeyIdx

LEMMA KeyInvStep == KeyInv /\ [Next]_vars => KeyInv'
<1> SUFFICES ASSUME KeyInv, [Next]_vars PROVE KeyInv'
    OBVIOUS
<1> USE PeerAssumption DEF KeyInv, TypeOK, PubHasPriv, NodeInv, Regenerating,
                           Working, NodeSteps, Ended, KeyIdx
<1>1. CASE Generate
    BY <1>1 DEF Generate
<1>2. CASE Collect
    BY <1>2 DEF Collect
<1>3. ASSUME NEW p \in Peers, Check(p) PROVE KeyInv'
    <2>1. UNCHANGED <<priv, pub, made, reply, gpc, runs, common>>
        BY <1>3 DEF Check
    <2>0. /\ npc[p] = "check"
          /\ \/ /\ pub[p][nk[p]] = 0
                /\ npc' = [npc EXCEPT ![p] = "remove"] /\ nk' = nk
             \/ /\ pub[p][nk[p]] # 0
                /\ npc' = [npc EXCEPT ![p] = IF nk[p] = 1 THEN "check" ELSE "read"]
                /\ nk' = [nk EXCEPT ![p] = 2]
        BY <1>3, NextPairEffect DEF Check
    <2>2. /\ npc' \in [Peers -> NodeSteps] /\ nk' \in [Peers -> KeyIdx]
          /\ \A q \in Peers \ {p} : npc'[q] = npc[q] /\ nk'[q] = nk[q]
        <3>1. CASE pub[p][nk[p]] = 0
            BY <2>0, <3>1
        <3>2. CASE pub[p][nk[p]] # 0 /\ nk[p] = 1
            BY <2>0, <3>2
        <3>3. CASE pub[p][nk[p]] # 0 /\ nk[p] = 2
            <4>1. npc' = [npc EXCEPT ![p] = "read"] /\ nk' = [nk EXCEPT ![p] = 2]
                BY <2>0, <3>3
            <4>2. QED
                BY <4>1
        <3>4. QED
            BY <3>1, <3>2, <3>3
    <2>3. ASSUME NEW q \in Peers PROVE NodeInv(q)'
        <3>1. CASE q # p
            BY <2>1, <2>2, <3>1
        <3>2. CASE q = p /\ pub[p][nk[p]] = 0
            <4>1. npc'[p] = "remove" /\ nk'[p] = nk[p]
                BY <2>0, <3>2
            <4>2. QED
                BY <4>1, <2>0, <2>1, <3>2
        <3>3. CASE q = p /\ pub[p][nk[p]] # 0 /\ nk[p] = 1
            <4>1. npc'[p] = "check" /\ nk'[p] = 2
                BY <2>0, <3>3
            <4>2. QED
                BY <4>1, <2>0, <2>1, <3>3
        <3>4. CASE q = p /\ pub[p][nk[p]] # 0 /\ nk[p] = 2
            <4>1. npc'[p] = "read" /\ nk'[p] = 2
                BY <2>0, <3>4
            <4>2. QED
                BY <4>1, <2>0, <2>1, <3>4
        <3>5. QED
            BY <3>1, <3>2, <3>3, <3>4
    <2>4. QED
        BY <2>1, <2>2, <2>3
<1>4. ASSUME NEW p \in Peers, Remove(p) PROVE KeyInv'
    BY <1>4 DEF Remove
<1>5. ASSUME NEW p \in Peers, KeygenPriv(p) PROVE KeyInv'
    BY <1>5 DEF KeygenPriv
<1>6. ASSUME NEW p \in Peers, KeygenPub(p) PROVE KeyInv'
    <2>1. UNCHANGED <<priv, made, reply, gpc, runs, common>>
        BY <1>6 DEF KeygenPub
    <2>2. /\ npc' \in [Peers -> NodeSteps] /\ nk' \in [Peers -> KeyIdx]
          /\ \A q \in Peers \ {p} : npc'[q] = npc[q] /\ nk'[q] = nk[q]
          /\ npc'[p] \in {"check", "read"}
          /\ npc'[p] = "read" => nk'[p] = 2 /\ nk[p] = 2
          /\ npc'[p] = "check" => nk'[p] = 2 /\ nk[p] = 1
        <3>1. /\ npc' = [npc EXCEPT ![p] = IF nk[p] = 1 THEN "check" ELSE "read"]
              /\ nk' = [nk EXCEPT ![p] = 2]
            BY <1>6, NextPairEffect DEF KeygenPub
        <3>2. CASE nk[p] = 1
            <4>1. npc' = [npc EXCEPT ![p] = "check"]
                BY <3>1, <3>2
            <4>2. QED
                BY <3>1, <3>2, <4>1
        <3>3. CASE nk[p] = 2
            <4>1. npc' = [npc EXCEPT ![p] = "read"]
                BY <3>1, <3>3
            <4>2. QED
                BY <3>1, <3>3, <4>1
        <3>4. QED
            BY <3>2, <3>3
    <2>3. pub' = [pub EXCEPT ![p][nk[p]] = priv[p][nk[p]]]
        BY <1>6 DEF KeygenPub
    <2>4. priv[p][nk[p]] # 0
        BY <1>6 DEF KeygenPub
    <2>5. pub' \in [Peers -> [KeyIdx -> Nat]]
        BY <2>3
    <2>6. PubHasPriv'
        BY <2>1, <2>3
    <2>7. \A e \in common : pub'[e[1]][e[2]] = e[3] /\ e[3] # 0
        BY <2>1, <2>3, <1>6 DEF KeygenPub
    <2>8. ASSUME NEW q \in Peers PROVE NodeInv(q)'
        <3>1. CASE q # p
            BY <2>1, <2>2, <2>3, <3>1
        <3>2. CASE q = p
            BY <1>6, <2>1, <2>2, <2>3, <2>4, <3>2 DEF KeygenPub
        <3>3. QED
            BY <3>1, <3>2
    <2>9. QED
        BY <2>1, <2>2, <2>5, <2>6, <2>7, <2>8
<1>7. ASSUME NEW p \in Peers, Read(p) PROVE KeyInv'
    <2>1. UNCHANGED <<priv, pub, made, nk, gpc, runs, common>>
        BY <1>7 DEF Read
    <2>2. /\ npc' = [npc EXCEPT ![p] = "replied"]
          /\ reply' = [reply EXCEPT ![p] = pub[p]]
        BY <1>7 DEF Read
    <2>3. ASSUME NEW q \in Peers PROVE NodeInv(q)'
        <3>1. CASE q # p
            BY <2>1, <2>2, <3>1
        <3>2. CASE q = p
            BY <1>7, <2>1, <2>2, <3>2 DEF Read
        <3>3. QED
            BY <3>1, <3>2
    <2>4. QED
        BY <2>1, <2>2, <2>3
<1>8. ASSUME NEW p \in Peers, Crash(p) PROVE KeyInv'
    BY <1>8 DEF Crash
<1>9. CASE UNCHANGED vars
    BY <1>9 DEF vars
<1>10. QED
    BY <1>1, <1>2, <1>3, <1>4, <1>5, <1>6, <1>7, <1>8, <1>9 DEF Next, Node

(***************************************************************************)
(* Every run of generate, whatever peers are down and whichever           *)
(* node-generate die at which step, keeps the types of the model (the key *)
(* files, the replies and common_secret.pem.pub).                         *)
(***************************************************************************)
THEOREM KeysTypeCorrect == Spec => []TypeOK
<1>1. KeyInv => TypeOK
    BY DEF KeyInv
<1>2. QED
    BY <1>1, KeyInvInit, KeyInvStep, PTL DEF Spec

(***************************************************************************)
(* Regenerating a pair only when its public key is missing keeps every    *)
(* key of common_secret.pem.pub the key pair on disk of its peer, for     *)
(* every number of peers and of runs of generate.                         *)
(***************************************************************************)
THEOREM KeysValid == Spec => []CommonSecretValid
<1>1. KeyInv => CommonSecretValid
    BY DEF KeyInv, PubHasPriv, CommonSecretValid, TypeOK
<1>2. QED
    BY <1>1, KeyInvInit, KeyInvStep, PTL DEF Spec

\* The body of KeysNeverReplaced: no existing public key changes in a step.
PubKept == \A p \in Peers, k \in KeyIdx : pub[p][k] # 0 => pub'[p][k] = pub[p][k]

\* Only Remove and KeygenPub write a public key, and both write the pair
\* node-generate is regenerating, whose public key is missing.
LEMMA PubKeptStep == KeyInv /\ [Next]_vars => [PubKept]_vars
<1> SUFFICES ASSUME KeyInv, [Next]_vars PROVE [PubKept]_vars
    OBVIOUS
<1> USE DEF KeyInv, TypeOK, KeyIdx
<1>1. ASSUME NEW p \in Peers, Remove(p) PROVE PubKept
    <2>1. pub[p][nk[p]] = 0
        BY <1>1 DEF Remove, NodeInv, Regenerating
    <2>2. QED
        BY <1>1, <2>1 DEF Remove, PubKept
<1>2. ASSUME NEW p \in Peers, KeygenPub(p) PROVE PubKept
    <2>1. pub[p][nk[p]] = 0
        BY <1>2 DEF KeygenPub, NodeInv, Regenerating
    <2>2. QED
        BY <1>2, <2>1 DEF KeygenPub, PubKept
<1>3. ASSUME NEW p \in Peers, Check(p) \/ KeygenPriv(p) \/ Read(p) \/ Crash(p)
      PROVE  PubKept
    BY <1>3 DEF Check, NextPair, KeygenPriv, Read, Crash, PubKept
<1>4. CASE Generate \/ Collect \/ UNCHANGED vars
    BY <1>4 DEF Generate, Collect, vars, PubKept
<1>5. QED
    BY <1>1, <1>2, <1>3, <1>4 DEF Next, Node

(***************************************************************************)
(* A public key file, once written, is never removed or rewritten by any  *)
(* later run of generate, for any set of peers and number of runs, with   *)
(* crashes and down peers: NodeGenCmd.run regenerates a pair only after   *)
(* finding its .pub file missing.                                         *)
(***************************************************************************)
THEOREM KeysNotRotated == Spec => KeysNeverReplaced
<1>1. KeyInv /\ [Next]_vars => [PubKept]_vars
    BY PubKeptStep
<1>2. Spec => [][PubKept]_vars
    BY <1>1, KeyInvInit, KeyInvStep, PTL DEF Spec
<1>3. QED
    BY <1>2 DEF KeysNeverReplaced, PubKept
=============================================================================
