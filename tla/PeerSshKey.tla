----------------------------- MODULE PeerSshKey -----------------------------
(***************************************************************************)
(* geo-replication/src/peer_georep-sshkey.py: "generate" (GenCmd) runs    *)
(* "node-generate" (NodeGenCmd) on every peer of the cluster, collects the *)
(* two public keys each peer reports and overwrites common_secret.pem.pub *)
(* with them.  On a peer, NodeGenCmd regenerates a key pair only when its *)
(* public half is missing: it removes every file of the pair, runs        *)
(* ssh-keygen (which writes the private key, then the public one) and     *)
(* reads both public keys back.                                           *)
(*                                                                         *)
(* A peer may be down when generate runs, and a node-generate may die at  *)
(* any step (a failing ssh-keygen or open(), the node going away); its    *)
(* files stay as they are.  The administrator may run generate again, up *)
(* to MaxRuns times.  A key is identified by the number of its generation *)
(* on that peer (0: no file); the "command=" prefixes only change the     *)
(* text written and are left out.                                         *)
(***************************************************************************)
EXTENDS Naturals, FiniteSets

CONSTANTS
    Peers,      \* the nodes of the trusted storage pool
    Local,      \* the peer generate is run on
    MaxRuns,    \* bound on the generate invocations explored
    MayCrash,   \* a node-generate may die part-way
    MayBeDown   \* a peer may be down when generate runs

ASSUME PeerAssumption ==
    /\ Local \in Peers
    /\ MaxRuns \in Nat \ {0}
    /\ MayCrash \in BOOLEAN
    /\ MayBeDown \in BOOLEAN

\* SECRET_PEM (gsyncd access), then TAR_SSH_PEM (tar over ssh).
KeyIdx == 1..2

\* Steps of NodeGenCmd.run on a peer.  "check" tests os.path.exists of the
\* public key of pair k; "down", "crashed" and "replied" end the process.
NodeSteps == {"idle", "check", "remove", "keygen_priv", "keygen_pub", "read",
              "replied", "crashed", "down"}
Working == {"check", "remove", "keygen_priv", "keygen_pub", "read"}
Ended == {"replied", "crashed", "down"}

VARIABLES
    priv,       \* priv[p][k]: generation of the private key file (0: none)
    pub,        \* pub[p][k]: generation of the public key file (0: none)
    made,       \* made[p][k]: key pairs ssh-keygen started on p so far
    npc,        \* step of node-generate on each peer
    nk,         \* the key pair node-generate is at
    reply,      \* the public keys each peer returned (0: none)
    gpc,        \* step of generate: "idle", "wait" (execute_in_peers), "done"
    runs,       \* generate invocations so far
    common      \* common_secret.pem.pub: a set of <<peer, key, generation>>

vars == <<priv, pub, made, npc, nk, reply, gpc, runs, common>>

Init ==
    /\ priv = [p \in Peers |-> [k \in KeyIdx |-> 0]]
    /\ pub = [p \in Peers |-> [k \in KeyIdx |-> 0]]
    /\ made = [p \in Peers |-> [k \in KeyIdx |-> 0]]
    /\ npc = [p \in Peers |-> "idle"]
    /\ nk = [p \in Peers |-> 1]
    /\ reply = [p \in Peers |-> [k \in KeyIdx |-> 0]]
    /\ gpc = "idle"
    /\ runs = 0
    /\ common = {}

\* GenCmd.run: execute_in_peers("node-generate", [prefix]) starts
\* node-generate on every peer that is up, the local one included.
Generate ==
    /\ gpc \in {"idle", "done"}
    /\ runs < MaxRuns
    /\ \E up \in (IF MayBeDown THEN {U \in SUBSET Peers : Local \in U} ELSE {Peers}) :
          npc' = [p \in Peers |-> IF p \in up THEN "check" ELSE "down"]
    /\ nk' = [p \in Peers |-> 1]
    /\ reply' = [p \in Peers |-> [k \in KeyIdx |-> 0]]
    /\ runs' = runs + 1
    /\ gpc' = "wait"
    /\ UNCHANGED <<priv, pub, made, common>>

\* The key pair after k, or the read of both public keys after the last.
NextPair(p) ==
    IF nk[p] = 1 THEN /\ nk' = [nk EXCEPT ![p] = 2]
                      /\ npc' = [npc EXCEPT ![p] = "check"]
                 ELSE /\ npc' = [npc EXCEPT ![p] = "read"]
                      /\ UNCHANGED nk

\* Mutant: the pair is regenerated whether or not its public key exists.
CheckAlwaysRegenerate(p) ==
    /\ npc[p] = "check"
    /\ npc' = [npc EXCEPT ![p] = "remove"]
    /\ UNCHANGED <<priv, pub, made, nk, reply, gpc, runs, common>>

\* if not os.path.exists(PEM + ".pub"): regenerate; else on to the next.
Check(p) ==
    /\ npc[p] = "check"
    /\ IF pub[p][nk[p]] = 0 THEN /\ npc' = [npc EXCEPT ![p] = "remove"]
                                 /\ UNCHANGED nk
                            ELSE NextPair(p)
    /\ UNCHANGED <<priv, pub, made, reply, gpc, runs, common>>

\* for f in glob.glob(PEM + "*"): os.remove(f)
Remove(p) ==
    /\ npc[p] = "remove"
    /\ priv' = [priv EXCEPT ![p][nk[p]] = 0]
    /\ pub' = [pub EXCEPT ![p][nk[p]] = 0]
    /\ npc' = [npc EXCEPT ![p] = "keygen_priv"]
    /\ UNCHANGED <<made, nk, reply, gpc, runs, common>>

\* execute(["ssh-keygen", "-N", "", "-f", PEM]): the private key is saved
\* first ...
KeygenPriv(p) ==
    /\ npc[p] = "keygen_priv"
    /\ made' = [made EXCEPT ![p][nk[p]] = @ + 1]
    /\ priv' = [priv EXCEPT ![p][nk[p]] = made[p][nk[p]] + 1]
    /\ npc' = [npc EXCEPT ![p] = "keygen_pub"]
    /\ UNCHANGED <<pub, nk, reply, gpc, runs, common>>

\* ... then its public half.
KeygenPub(p) ==
    /\ npc[p] = "keygen_pub"
    /\ pub' = [pub EXCEPT ![p][nk[p]] = priv[p][nk[p]]]
    /\ NextPair(p)
    /\ UNCHANGED <<priv, made, reply, gpc, runs, common>>

\* Both public keys are read and returned (node_output_ok).
Read(p) ==
    /\ npc[p] = "read"
    /\ reply' = [reply EXCEPT ![p] = pub[p]]
    /\ npc' = [npc EXCEPT ![p] = "replied"]
    /\ UNCHANGED <<priv, pub, made, nk, gpc, runs, common>>

\* node-generate dies: the peer reports NOT OK; its files stay.
Crash(p) ==
    /\ MayCrash
    /\ npc[p] \in Working
    /\ npc' = [npc EXCEPT ![p] = "crashed"]
    /\ UNCHANGED <<priv, pub, made, nk, reply, gpc, runs, common>>

\* Every peer has answered: common_secrets gathers the keys of the peers
\* whose reply is ok, and open(COMMON_SECRET_FILE, "w") replaces the file.
Collect ==
    /\ gpc = "wait"
    /\ \A p \in Peers : npc[p] \in Ended
    /\ common' = {<<p, k, reply[p][k]>> : p \in {q \in Peers : npc[q] = "replied"},
                                         k \in KeyIdx}
    /\ gpc' = "done"
    /\ npc' = [p \in Peers |-> "idle"]
    /\ UNCHANGED <<priv, pub, made, nk, reply, runs>>

Node(p) == Check(p) \/ Remove(p) \/ KeygenPriv(p) \/ KeygenPub(p) \/ Read(p)

Next ==
    \/ Generate \/ Collect
    \/ \E p \in Peers : Node(p) \/ Crash(p)

\* Only safety is checked here: that generate ends is up to
\* execute_in_peers, which is not in this repository.
Spec == Init /\ [][Next]_vars

-----------------------------------------------------------------------------
TypeOK ==
    /\ priv \in [Peers -> [KeyIdx -> Nat]]
    /\ pub \in [Peers -> [KeyIdx -> Nat]]
    /\ made \in [Peers -> [KeyIdx -> Nat]]
    /\ npc \in [Peers -> NodeSteps]
    /\ nk \in [Peers -> KeyIdx]
    /\ gpc \in {"idle", "wait", "done"}
    /\ runs \in 0..MaxRuns
    /\ reply \in [Peers -> [KeyIdx -> Nat]]
    /\ common \subseteq Peers \X KeyIdx \X Nat

(***************************************************************************)
(* Distributed keys stay valid (the point of regenerating a pair only     *)
(* when its public half is missing): every key that common_secret.pem.pub *)
(* holds is still the key pair on disk of its peer -- the public file and *)
(* the private key that matches it -- whatever later runs of generate,    *)
(* crashes of node-generate and peers being down have done.               *)
(***************************************************************************)
CommonSecretValid ==
    \A e \in common : pub[e[1]][e[2]] = e[3] /\ priv[e[1]][e[2]] = e[3]

(***************************************************************************)
(* Keys in use are never rotated: once a peer has a public key file, no   *)
(* later generate -- whatever peers are down and wherever node-generate   *)
(* died -- removes or rewrites it, so a session whose secondary already  *)
(* trusts that key keeps working.  The pair is touched only when its      *)
(* .pub file is missing (NodeGenCmd.run's os.path.exists check).          *)
(***************************************************************************)
KeysNeverReplaced ==
    [][\A p \in Peers, k \in KeyIdx : pub[p][k] # 0 => pub'[p][k] = pub[p][k]]_vars

(***************************************************************************)
(* The module docstring: generate "collects the public keys" of all peers *)
(* to the local node.  After generate, every peer that has a key pair has *)
(* its public keys in common_secret.pem.pub.                              *)
(***************************************************************************)
CommonSecretCoversPeers ==
    gpc = "done" =>
        \A p \in Peers, k \in KeyIdx : pub[p][k] # 0 => <<p, k, pub[p][k]>> \in common
=============================================================================
