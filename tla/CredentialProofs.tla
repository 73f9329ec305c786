---------------------------- MODULE CredentialProofs ----------------------------
(***************************************************************************)
(* Facts about the paths of Credentials, which DelegationProofs and        *)
(* GatewayProofs rest on.                                                  *)
(***************************************************************************)
EXTENDS Credentials, SequenceTheorems, TLAPS

\* The ancestor after k links is a credential with the first k links.
LEMMA PathFacts ==
  ASSUME NEW c \in Credential, NEW k \in 1 .. Len(c)
  PROVE  /\ Path(c, k) \in Credential
         /\ Len(Path(c, k)) = k
         /\ \A i \in 1 .. k : Path(c, k)[i] = c[i]
  <1>1. c \in Seq(Link) /\ Len(c) \in Nat
    BY LenProperties DEF Credential
  <1>2. \A i \in 1 .. k : c[i] \in Link
    BY <1>1, ElementOfSeq
  <1>3. /\ SubSeq(c, 1, k) \in Seq(Link)
        /\ Len(SubSeq(c, 1, k)) = k
        /\ \A i \in 1 .. k : SubSeq(c, 1, k)[i] = c[i]
    BY <1>1, <1>2, SubSeqProperties, Z3
  <1>4. SubSeq(c, 1, k) # <<>>
    BY <1>1, <1>3, EmptySeq
  <1> QED
    BY <1>3, <1>4 DEF Path, Credential

LEMMA CredentialLen ==
  ASSUME NEW c \in Credential
  PROVE  /\ Len(c) \in Nat \ {0}
         /\ \A i \in 1 .. Len(c) : c[i] \in Link
  BY LenProperties, EmptySeq, ElementOfSeq DEF Credential

LEMMA PathFull ==
  ASSUME NEW c \in Credential
  PROVE  Path(c, Len(c)) = c
  BY SubSeqFull DEF Path, Credential

\* An ancestor's ancestor is an ancestor.
LEMMA PathOfPath ==
  ASSUME NEW c \in Credential, NEW k \in 1 .. Len(c), NEW i \in 1 .. k
  PROVE  Path(Path(c, k), i) = Path(c, i)
  <1>1. Len(c) \in Nat /\ i \in 1 .. Len(c)
    BY CredentialLen
  <1> DEFINE s == Path(Path(c, k), i)
             t == Path(c, i)
  <1>2. s \in Credential /\ Len(s) = i /\ \A n \in 1 .. i : s[n] = c[n]
    BY <1>1, PathFacts
  <1>3. t \in Credential /\ Len(t) = i /\ \A n \in 1 .. i : t[n] = c[n]
    BY <1>1, PathFacts
  <1> HIDE DEF s, t
  <1>4. s = t
    BY <1>2, <1>3, SeqEqual DEF Credential
  <1> QED
    BY <1>4 DEF s, t

\* A child's ancestors are itself, its parent and its parent's ancestors.
LEMMA ChildFacts ==
  ASSUME NEW p \in Credential, NEW l \in Link
  PROVE  /\ Append(p, l) \in Credential
         /\ Len(Append(p, l)) = Len(p) + 1
         /\ \A i \in 1 .. Len(p) : Append(p, l)[i] = p[i]
         /\ Append(p, l)[Len(p) + 1] = l
         /\ \A k \in 1 .. Len(p) : Path(Append(p, l), k) = Path(p, k)
         /\ Path(Append(p, l), Len(p) + 1) = Append(p, l)
  <1> DEFINE c == Append(p, l)
  <1>1. Len(p) \in Nat \ {0}
    BY CredentialLen
  <1>2. /\ c \in Credential
        /\ Len(c) = Len(p) + 1
        /\ \A i \in 1 .. Len(p) : c[i] = p[i]
        /\ c[Len(p) + 1] = l
    BY AppendProperties DEF Credential
  <1> HIDE DEF c
  <1>3. ASSUME NEW k \in 1 .. Len(p) PROVE Path(c, k) = Path(p, k)
    <2>1. k \in 1 .. Len(c)
      BY <1>1, <1>2
    <2>2. /\ Path(c, k) \in Seq(Link) /\ Len(Path(c, k)) = k
          /\ \A i \in 1 .. k : Path(c, k)[i] = c[i]
      BY <1>2, <2>1, PathFacts DEF Credential
    <2>3. /\ Path(p, k) \in Seq(Link) /\ Len(Path(p, k)) = k
          /\ \A i \in 1 .. k : Path(p, k)[i] = p[i]
      BY PathFacts DEF Credential
    <2>4. \A i \in 1 .. k : c[i] = p[i]
      BY <1>1, <1>2
    <2> QED
      BY <2>2, <2>3, <2>4, SeqEqual
  <1>4. Path(c, Len(p) + 1) = c
    BY <1>2, PathFull
  <1> QED
    BY <1>2, <1>3, <1>4 DEF c

\* A token's root is a credential of one link.
LEMMA RootFacts ==
  ASSUME NEW l \in Link
  PROVE  /\ <<l>> \in Credential
         /\ Len(<<l>>) = 1
         /\ <<l>>[1] = l
         /\ Path(<<l>>, 1) = <<l>>
  <1>1. <<l>> \in Credential /\ Len(<<l>>) = 1 /\ <<l>>[1] = l
    BY DEF Credential
  <1> QED
    BY <1>1, PathFull
=============================================================================
