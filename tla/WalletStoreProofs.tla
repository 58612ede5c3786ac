------------------------- MODULE WalletStoreProofs -------------------------
(***************************************************************************)
(* Proofs about WalletStore: who can sign, for any number of programs that *)
(* write; and, as long as only one of them writes, that every stored       *)
(* keystore is whole and usable and none is replaced unasked.              *)
(*                                                                         *)
(* With two writers the last two are not theorems: existsSync, the write   *)
(* of the temporary file and renameSync are separate calls, and all        *)
(* programs use the same temporary file.                                   *)
(***************************************************************************)
EXTENDS WalletStore, TLAPS

-----------------------------------------------------------------------------
(* Who can sign                                                            *)

\* A wallet object has its two fields, and the key it holds is that of its
\* address.
OwnsAddress(w) ==
  /\ DOMAIN w = {"ks", "keys"}
  /\ w.keys # None =>
       w.ks.address = AddressFromPublicKey(PublicKeyOf(w.keys))

SignInv ==
  /\ wallet = [p \in Programs |-> wallet[p]]
  /\ \A p \in Programs : wallet[p] # None => OwnsAddress(wallet[p])

\* An unlocked keystore makes a wallet that owns its address.
LEMMA UnlockedOwns ==
  ASSUME NEW ks, NEW passphrase, Unlocks(ks, passphrase)
  PROVE  OwnsAddress(Unlocked(ks))
BY DEF Unlocks, IsKeystore, OwnsAddress, Unlocked

\* So does a generated one.
LEMMA CreatedOwns ==
  ASSUME NEW k, NEW passphrase, NEW n
  PROVE  OwnsAddress(Unlocked(CreateKeystore(k, passphrase, n)))
BY DEF CreateKeystore, EncryptBytes, OwnsAddress, Unlocked

\* A program that exchanges its wallet for another one that owns its address.
LEMMA WalletReplaced ==
  ASSUME SignInv, NEW p \in Programs, NEW w, w # None => OwnsAddress(w),
         wallet' = [wallet EXCEPT ![p] = w]
  PROVE  SignInv'
BY DEF SignInv

LEMMA NextSignInv == SignInv /\ [Next]_vars => SignInv'
<1> SUFFICES ASSUME SignInv, [Next]_vars
             PROVE  SignInv'
  OBVIOUS
<1>1. ASSUME NEW p \in Programs, NEW n \in Names, Load(p, n)
      PROVE  SignInv'
  <2>1. OwnsAddress(Locked(files[Path(n)]))
    BY DEF OwnsAddress, Locked
  <2> QED
    BY <1>1, <2>1, WalletReplaced DEF Load
<1>2. ASSUME NEW p \in Programs, NEW s \in Passphrases, Unlock(p, s)
      PROVE  SignInv'
  <2>1. OwnsAddress(Unlocked(wallet[p].ks))
    BY <1>2, UnlockedOwns DEF Unlock
  <2>2. wallet' = [wallet EXCEPT ![p] = Unlocked(wallet[p].ks)]
    BY <1>2 DEF Unlock
  <2> QED
    BY <2>1, <2>2, WalletReplaced
<1>3. ASSUME NEW p \in Programs, Lock(p)
      PROVE  SignInv'
  <2> DEFINE w == [wallet[p] EXCEPT !.keys = None]
  <2>1. wallet' = [wallet EXCEPT ![p] = w]
    BY <1>3 DEF Lock
  <2>2. OwnsAddress(w)
    BY <1>3 DEF Lock, SignInv, OwnsAddress
  <2> HIDE DEF w
  <2> QED
    BY <2>1, <2>2, WalletReplaced
<1>4. ASSUME NEW p \in Programs, Crash(p)
      PROVE  SignInv'
  BY <1>4, WalletReplaced DEF Crash
<1>5. ASSUME NEW p \in Programs, NEW n, NEW over, Save(p, n, over)
      PROVE  SignInv'
  BY <1>5, WalletReplaced DEF Save, BeginSave, SignInv
<1>6. ASSUME NEW p \in Programs, NEW n, NEW s, Create(p, n, s)
      PROVE  SignInv'
  BY <1>6, CreatedOwns, WalletReplaced DEF Create, BeginSave
<1>7. ASSUME NEW p \in Programs, NEW n, NEW ks, NEW s, Import(p, n, ks, s)
      PROVE  SignInv'
  BY <1>7, UnlockedOwns, WalletReplaced DEF Import, BeginSave
<1>8. ASSUME wallet' = wallet
      PROVE  SignInv'
  BY <1>8 DEF SignInv
<1>9. ASSUME NEW p \in Programs,
             \/ SaveCheck(p) \/ SaveOpen(p) \/ SaveWrite(p) \/ SaveRename(p)
             \/ \E n \in Names : Delete(p, n)
      PROVE  SignInv'
  BY <1>8, <1>9 DEF SaveCheck, SaveOpen, SaveWrite, SaveRename, Delete
<1>10. CASE \E p \in Programs : Read(p)
  BY <1>1, <1>2, <1>3, <1>4, <1>10 DEF Read
<1>11. CASE \E p \in Writers : Write(p)
  BY <1>5, <1>6, <1>7, <1>9, <1>11, WalletStoreAssumption DEF Write
<1>12. CASE UNCHANGED vars
  BY <1>8, <1>12 DEF vars
<1> QED
  BY <1>10, <1>11, <1>12 DEF Next

\* Any number of programs may write, crash and edit keystores: a program that
\* can sign signs for the account whose key it holds.
THEOREM SignersOwnTheirAddress == Spec => []SignerOwnsAddress
<1>1. Init => SignInv
  BY DEF Init, SignInv
<1>2. SignInv => SignerOwnsAddress
  BY DEF SignInv, OwnsAddress, SignerOwnsAddress
<1> QED
  BY <1>1, <1>2, NextSignInv, PTL DEF Spec

-----------------------------------------------------------------------------
(* What is stored                                                          *)

\* No program writes while another one does.
OneWriter == \A p, q \in Writers : p = q

\* A keystore there can be, under the name it came with or another one.
Origin(ks) ==
  \E src \in Keystores : ks = src \/ \E n \in Names : ks = ExportKeystore(src, n)

Usable(ks) == Origin(ks) /\ \E s \in Passphrases : Unlocks(ks, s)

\* What holds of a program that is saving: a name that it may not overwrite is
\* still free, and the temporary file is its own until it is complete.
SaveOK(p) ==
  pc[p] # "idle" =>
    /\ p \in Writers
    /\ target[p] \in Names
    /\ Usable(wallet[p].ks)
    /\ (pc[p] # "check" /\ ~overwrite[p]) => ~Exists(target[p])
    /\ pc[p] = "write" => fd[p] = Tmp(target[p])
    /\ pc[p] = "rename" => Usable(files[Tmp(target[p])])

StoreShape ==
  /\ files = [x \in Paths |-> files[x]]
  /\ pc = [p \in Programs |-> pc[p]]
  /\ target = [p \in Programs |-> target[p]]
  /\ overwrite = [p \in Programs |-> overwrite[p]]
  /\ fd = [p \in Programs |-> fd[p]]
  /\ wallet = [p \in Programs |-> wallet[p]]

StoreInv ==
  /\ StoreShape
  /\ \A p \in Programs : wallet[p] # None => Usable(wallet[p].ks)
  /\ \A n \in Names : Exists(n) => Usable(files[Path(n)])
  /\ \A p \in Programs : SaveOK(p)

\* The file of a wallet is no temporary file, and no other wallet's.
LEMMA PathFacts ==
  /\ \A n \in Names : Path(n) \in Paths /\ Tmp(n) \in Paths
  /\ \A n, m \in Names : /\ Path(n) # Tmp(m)
                         /\ Path(n) = Path(m) => n = m
                         /\ Tmp(n) = Tmp(m) => n = m
BY DEF Path, Tmp, Paths

\* A usable keystore stays one under another name, and is not an absent or a
\* torn file.
LEMMA ExportUsable ==
  ASSUME NEW ks, Usable(ks), NEW n \in Names
  PROVE  /\ Usable(ExportKeystore(ks, n))
         /\ ks \notin {NoFile, Torn}
<1> DEFINE out == ExportKeystore(ks, n)
<1>1. PICK src \in Keystores :
        ks = src \/ \E m \in Names : ks = ExportKeystore(src, m)
  BY DEF Usable, Origin
<1>2. DOMAIN src = {"name", "address", "publicKey", "encryptedPrivateKey"}
  BY KeystoreAssumption
<1>3. DOMAIN ks = {"name", "address", "publicKey", "encryptedPrivateKey"}
  BY <1>1, <1>2 DEF ExportKeystore
<1>4. out = ExportKeystore(src, n)
  BY <1>1, <1>2, <1>3 DEF ExportKeystore
<1>5. out \notin {NoFile, Torn} /\ Origin(out)
  BY <1>4, KeystoreAssumption DEF Origin
<1>6. /\ out.address = ks.address /\ out.publicKey = ks.publicKey
      /\ out.encryptedPrivateKey = ks.encryptedPrivateKey
  BY <1>3 DEF ExportKeystore
<1>7. PICK s \in Passphrases : Unlocks(ks, s)
  BY DEF Usable
<1> HIDE DEF out
<1>8. Unlocks(out, s)
  BY <1>5, <1>6, <1>7 DEF Unlocks, IsKeystore, Decrypts
<1> QED
  BY <1>5, <1>7, <1>8 DEF Usable, Unlocks, IsKeystore, out

\* A generated keystore is usable with the passphrase it was given.
LEMMA CreatedUsable ==
  ASSUME NEW k \in PrivateKeys, NEW s \in Passphrases, NEW n \in Names
  PROVE  Usable(CreateKeystore(k, s, n))
<1> DEFINE ks == CreateKeystore(k, s, n)
<1>1. ks \in Keystores
  BY DEF Keystores
<1>2. ks = ExportKeystore(ks, n)
  BY DEF CreateKeystore, ExportKeystore
<1>3. ks \notin {NoFile, Torn}
  <2> HIDE DEF ks
  <2> QED
    BY <1>1, <1>2, KeystoreAssumption
<1>4. Unlocks(ks, s)
  BY <1>3 DEF Unlocks, IsKeystore, Decrypts, CreateKeystore, EncryptBytes
<1> HIDE DEF ks
<1> QED
  BY <1>1, <1>4 DEF Usable, Origin, ks

LEMMA InitStore == Init => StoreInv
<1> SUFFICES ASSUME Init
             PROVE  StoreInv
  OBVIOUS
<1>1. StoreShape
  BY DEF Init, StoreShape
<1>2. \A n \in Names : ~Exists(n)
  BY PathFacts DEF Init, Exists
<1>3. \A p \in Programs : wallet[p] = None /\ pc[p] = "idle"
  BY DEF Init
<1> QED
  BY <1>1, <1>2, <1>3 DEF StoreInv, SaveOK

\* A program that is not saving takes another wallet object.
LEMMA TakeWallet ==
  ASSUME StoreInv, NEW p \in Programs, pc[p] = "idle",
         NEW w, w # None => Usable(w.ks), wallet' = [wallet EXCEPT ![p] = w],
         UNCHANGED <<files, pc, target, overwrite, fd>>
  PROVE  StoreInv'
<1>1. \A q \in Programs : wallet'[q] = IF q = p THEN w ELSE wallet[q]
  BY DEF StoreInv, StoreShape
<1>2. StoreShape'
  BY DEF StoreInv, StoreShape
<1>3. \A q \in Programs : SaveOK(q)'
  BY <1>1 DEF StoreInv, SaveOK, Exists
<1> QED
  BY <1>1, <1>2, <1>3 DEF StoreInv, Exists

\* A program starts to save a usable keystore.
LEMMA StartSave ==
  ASSUME StoreInv, NEW p \in Writers, NEW n \in Names, NEW w, NEW over,
         Usable(w.ks), BeginSave(p, n, w, over)
  PROVE  StoreInv'
<1>0. p \in Programs
  BY WalletStoreAssumption
<1>1. \A q \in Programs :
        /\ wallet'[q] = IF q = p THEN w ELSE wallet[q]
        /\ pc'[q] = IF q = p THEN "check" ELSE pc[q]
        /\ target'[q] = IF q = p THEN n ELSE target[q]
        /\ overwrite'[q] = IF q = p THEN over ELSE overwrite[q]
        /\ fd'[q] = fd[q]
  BY DEF BeginSave, StoreInv, StoreShape
<1>2. files' = files
  BY DEF BeginSave
<1>3. StoreShape'
  BY DEF BeginSave, StoreInv, StoreShape
<1>4. \A q \in Programs : SaveOK(q)'
  BY <1>1, <1>2 DEF StoreInv, SaveOK, Exists
<1> QED
  BY <1>1, <1>2, <1>3, <1>4 DEF StoreInv, Exists

\* While one program is saving, the others are not.
LEMMA OthersIdle ==
  ASSUME StoreInv, OneWriter, NEW p \in Writers
  PROVE  \A q \in Programs : q # p => pc[q] = "idle"
BY DEF StoreInv, SaveOK, OneWriter

\* The calls of a save, each by the only writer.
LEMMA SaveStep ==
  ASSUME StoreInv, OneWriter, NEW p \in Writers,
         SaveCheck(p) \/ SaveOpen(p) \/ SaveWrite(p) \/ SaveRename(p)
  PROVE  StoreInv'
<1> DEFINE from == Tmp(target[p])
           to   == Path(target[p])
<1>0. /\ p \in Programs /\ pc[p] # "idle"
      /\ \A q \in Programs : q # p => pc[q] = "idle"
  BY WalletStoreAssumption, OthersIdle
     DEF SaveCheck, SaveOpen, SaveWrite, SaveRename
<1>1. /\ target[p] \in Names /\ Usable(wallet[p].ks)
      /\ (pc[p] # "check" /\ ~overwrite[p]) => ~Exists(target[p])
      /\ pc[p] = "write" => fd[p] = from
      /\ pc[p] = "rename" => Usable(files[from])
  BY <1>0 DEF StoreInv, SaveOK
<1>2. /\ from \in Paths /\ to \in Paths
      /\ \A n \in Names : /\ Path(n) # from
                          /\ Path(n) \in Paths
                          /\ Path(n) = to => n = target[p]
      /\ from # to
  BY <1>1, PathFacts
<1>3. \A x \in Programs : (pc'[x] = "idle" => SaveOK(x)')
  BY DEF SaveOK
<1>a. files = [x \in Paths |-> files[x]]
  BY DEF StoreInv, StoreShape
<1>4. /\ target' = target /\ overwrite' = overwrite /\ wallet' = wallet
      /\ \A q \in Programs : q # p => pc'[q] = "idle"
  BY <1>0 DEF SaveCheck, SaveOpen, SaveWrite, SaveRename, StoreInv, StoreShape
<1>5. \A q \in Programs : wallet'[q] # None => Usable(wallet'[q].ks)
  BY <1>4 DEF StoreInv
<1>6. CASE SaveCheck(p)
  <2>1. /\ files' = files /\ fd' = fd
        /\ pc'[p] = IF Exists(target[p]) /\ ~overwrite[p] THEN "idle" ELSE "open"
    BY <1>0, <1>6 DEF SaveCheck, StoreInv, StoreShape
  <2>2. StoreShape'
    BY <1>6 DEF SaveCheck, StoreInv, StoreShape
  <2>3. SaveOK(p)'
    BY <1>1, <1>4, <2>1 DEF SaveOK, Exists
  <2> QED
    BY <1>3, <1>4, <1>5, <2>1, <2>2, <2>3, WalletStoreAssumption
       DEF StoreInv, Exists
<1>7. CASE SaveOpen(p)
  <2>1. /\ pc[p] = "open" /\ pc'[p] = "write" /\ fd'[p] = from
        /\ files' = [files EXCEPT ![from] = Torn]
    BY <1>0, <1>7 DEF SaveOpen, StoreInv, StoreShape
  <2>2. \A n \in Names : files'[Path(n)] = files[Path(n)]
    <3>1. \A x \in Paths : x # from => files'[x] = files[x]
      BY <1>a, <2>1
    <3> HIDE DEF from
    <3> QED
      BY <1>2, <3>1
  <2>3. StoreShape'
    BY <1>7 DEF SaveOpen, StoreInv, StoreShape
  <2> HIDE DEF from
  <2>4. SaveOK(p)'
    BY <1>1, <1>4, <2>1, <2>2 DEF SaveOK, Exists, from
  <2> QED
    BY <1>3, <1>4, <1>5, <2>2, <2>3, <2>4, WalletStoreAssumption
       DEF StoreInv, Exists
<1>8. CASE SaveWrite(p)
  <2> DEFINE out == ExportKeystore(wallet[p].ks, target[p])
  <2>1. /\ pc[p] = "write" /\ pc'[p] = "rename"
        /\ files' = [x \in Paths |-> IF x = from THEN out ELSE files[x]]
    BY <1>0, <1>1, <1>8 DEF SaveWrite, StoreInv, StoreShape
  <2>2. /\ \A n \in Names : files'[Path(n)] = files[Path(n)]
        /\ files'[from] = out
    <3>1. /\ \A x \in Paths : x # from => files'[x] = files[x]
          /\ from \in Paths => files'[from] = out
      BY <2>1
    <3> HIDE DEF from, out
    <3> QED
      BY <1>2, <3>1
  <2>3. Usable(out)
    BY <1>1, ExportUsable
  <2>4. StoreShape'
    BY <1>8, <2>1 DEF SaveWrite, StoreInv, StoreShape
  <2> HIDE DEF out
  <2>5. SaveOK(p)'
    BY <1>1, <1>4, <2>1, <2>2, <2>3 DEF SaveOK, Exists
  <2> QED
    BY <1>3, <1>4, <1>5, <2>2, <2>4, <2>5, WalletStoreAssumption
       DEF StoreInv, Exists
<1>9. CASE SaveRename(p)
  <2>1. /\ pc[p] = "rename" /\ pc'[p] = "idle"
        /\ \/ files' = files
           \/ files' = [files EXCEPT ![to] = files[from], ![from] = NoFile]
    BY <1>0, <1>9 DEF SaveRename, StoreInv, StoreShape
  <2>2. StoreShape'
    BY <1>9 DEF SaveRename, StoreInv, StoreShape
  <2>3. \A n \in Names : \/ files'[Path(n)] = files[Path(n)]
                         \/ files'[Path(n)] = files[from]
    <3>1. \A x \in Paths : x # from => files'[x] = files[x] \/ files'[x] = files[from]
      BY <1>a, <2>1
    <3> HIDE DEF from
    <3> QED
      BY <1>2, <3>1
  <2>4. \A n \in Names : Exists(n)' => Usable(files'[Path(n)])
    BY <1>1, <2>1, <2>3 DEF StoreInv, Exists
  <2> QED
    BY <1>3, <1>4, <1>5, <2>1, <2>2, <2>4 DEF StoreInv
<1> QED
  BY <1>6, <1>7, <1>8, <1>9

\* A wallet is deleted by the only writer, which is not saving.
LEMMA DeleteStep ==
  ASSUME StoreInv, OneWriter, NEW p \in Writers, NEW m \in Names, Delete(p, m)
  PROVE  StoreInv'
<1>1. \A q \in Programs : pc[q] = "idle"
  BY OthersIdle DEF Delete
<1>2. \A n \in Names : files'[Path(n)] \in {NoFile, files[Path(n)]}
  BY PathFacts DEF Delete, StoreInv, StoreShape
<1>3. StoreShape'
  BY DEF Delete, StoreInv, StoreShape
<1>4. pc' = pc /\ wallet' = wallet
  BY DEF Delete
<1> QED
  BY <1>1, <1>2, <1>3, <1>4 DEF StoreInv, SaveOK, Exists

\* A program dies; a save of its own is abandoned where it was.
LEMMA CrashStep ==
  ASSUME StoreInv, NEW p \in Programs, Crash(p)
  PROVE  StoreInv'
<1>1. \A q \in Programs :
        /\ wallet'[q] = IF q = p THEN None ELSE wallet[q]
        /\ pc'[q] = IF q = p THEN "idle" ELSE pc[q]
        /\ q # p => /\ target'[q] = target[q]
                    /\ overwrite'[q] = overwrite[q]
                    /\ fd'[q] = fd[q]
  BY DEF Crash, StoreInv, StoreShape
<1>2. files' = files
  BY DEF Crash
<1>3. StoreShape'
  BY DEF Crash, StoreInv, StoreShape
<1>4. \A q \in Programs : SaveOK(q)'
  BY <1>1, <1>2 DEF StoreInv, SaveOK, Exists
<1> QED
  BY <1>1, <1>2, <1>3, <1>4 DEF StoreInv, Exists

LEMMA NextStore ==
  ASSUME OneWriter, SignInv, StoreInv, [Next]_vars
  PROVE  StoreInv'
<1>1. ASSUME NEW p \in Programs, NEW n \in Names, Load(p, n)
      PROVE  StoreInv'
  <2>1. Exists(n)
    BY <1>1 DEF Load, IsKeystore, Exists
  <2>2. Usable(Locked(files[Path(n)]).ks)
    BY <2>1 DEF StoreInv, Locked
  <2> QED
    BY <1>1, <2>2, TakeWallet DEF Load
<1>2. ASSUME NEW p \in Programs, NEW s \in Passphrases, Unlock(p, s)
      PROVE  StoreInv'
  <2>1. Usable(Unlocked(wallet[p].ks).ks)
    BY <1>2 DEF Unlock, StoreInv, Unlocked
  <2>2. wallet' = [wallet EXCEPT ![p] = Unlocked(wallet[p].ks)]
    BY <1>2 DEF Unlock
  <2> QED
    BY <1>2, <2>1, <2>2, TakeWallet DEF Unlock
<1>3. ASSUME NEW p \in Programs, Lock(p)
      PROVE  StoreInv'
  <2> DEFINE w == [wallet[p] EXCEPT !.keys = None]
  <2>1. wallet' = [wallet EXCEPT ![p] = w]
    BY <1>3 DEF Lock
  <2>2. w.ks = wallet[p].ks
    BY <1>3 DEF Lock, SignInv, OwnsAddress
  <2>3. Usable(w.ks)
    BY <1>3, <2>2 DEF Lock, StoreInv
  <2> HIDE DEF w
  <2> QED
    BY <1>3, <2>1, <2>3, TakeWallet DEF Lock
<1>4. ASSUME NEW p \in Writers, NEW n \in Names, NEW over, Save(p, n, over)
      PROVE  StoreInv'
  <2>1. Usable(wallet[p].ks)
    BY <1>4, WalletStoreAssumption DEF Save, StoreInv
  <2> QED
    BY <1>4, <2>1, StartSave DEF Save
<1>5. ASSUME NEW p \in Writers, NEW n \in Names, NEW s \in Passphrases,
             Create(p, n, s)
      PROVE  StoreInv'
  <2>1. PICK k \in PrivateKeys :
          BeginSave(p, n, Unlocked(CreateKeystore(k, s, n)), FALSE)
    BY <1>5 DEF Create
  <2>2. Usable(Unlocked(CreateKeystore(k, s, n)).ks)
    BY CreatedUsable DEF Unlocked
  <2> QED
    BY <2>1, <2>2, StartSave
<1>6. ASSUME NEW p \in Writers, NEW n \in Names, NEW s \in Passphrases,
             NEW ks \in ImportFiles, Import(p, n, ks, s)
      PROVE  StoreInv'
  <2>1. Usable(Unlocked(ks).ks)
    BY <1>6 DEF Import, Usable, Origin, Keystores, Unlocked
  <2> QED
    BY <1>6, <2>1, StartSave DEF Import
<1>7. CASE \E p \in Programs : Read(p)
  BY <1>1, <1>2, <1>3, <1>7, CrashStep DEF Read
<1>8. CASE \E p \in Writers : Write(p)
  <2>1. PICK p \in Writers : Write(p)
    BY <1>8
  <2>2. CASE \E n \in Names, over \in BOOLEAN : Save(p, n, over)
    BY <1>4, <2>2
  <2>3. CASE \E n \in Names, s \in Passphrases : Create(p, n, s)
    BY <1>5, <2>3
  <2>4. CASE \E n \in Names, s \in Passphrases, ks \in ImportFiles :
               Import(p, n, ks, s)
    BY <1>6, <2>4
  <2>5. CASE \E n \in Names : Delete(p, n)
    BY <2>5, DeleteStep
  <2>6. CASE SaveCheck(p) \/ SaveOpen(p) \/ SaveWrite(p) \/ SaveRename(p)
    BY <2>6, SaveStep
  <2> QED
    BY <2>1, <2>2, <2>3, <2>4, <2>5, <2>6 DEF Write
<1>9. CASE UNCHANGED vars
  BY <1>9 DEF vars, StoreInv, StoreShape, SaveOK, Exists
<1> QED
  BY <1>7, <1>8, <1>9 DEF Next

\* Wherever the one program that writes is killed, the file of a wallet is
\* absent or a whole keystore that one of the passphrases opens.
THEOREM StoreStaysUsable ==
  ASSUME OneWriter
  PROVE  Spec => []StoredUsable
<1>1. Init => SignInv
  BY DEF Init, SignInv
<1>2. SignInv /\ StoreInv /\ [Next]_vars => StoreInv'
  BY NextStore
<1>3. StoreInv => StoredUsable
  <2> SUFFICES ASSUME StoreInv, NEW n \in Names, Exists(n)
               PROVE  /\ files[Path(n)] # Torn
                      /\ \E s \in Passphrases : Unlocks(files[Path(n)], s)
    BY DEF StoredUsable
  <2>1. Usable(files[Path(n)])
    BY DEF StoreInv
  <2> QED
    BY <2>1, ExportUsable DEF Usable
<1> QED
  BY <1>1, <1>2, <1>3, InitStore, NextSignInv, PTL DEF Spec

\* As long as one program writes, a stored keystore, and with it the only copy
\* of its key, is replaced or removed only at the request of a user.
THEOREM OverwriteOnlyOnRequest ==
  ASSUME OneWriter
  PROVE  Spec => NoSilentOverwrite
<1> DEFINE Asked(n) == \E p \in Writers :
                         \/ Delete(p, n)
                         \/ SaveRename(p) /\ target[p] = n /\ overwrite[p]
           Silent(n) == Exists(n) /\ files'[Path(n)] # files[Path(n)]
<1>1. ASSUME StoreInv, [Next]_vars, NEW n \in Names, Silent(n)
      PROVE  Asked(n)
  <2>0. files = [x \in Paths |-> files[x]]
    BY <1>1 DEF StoreInv, StoreShape
  <2>1. files' # files
    BY <1>1
  <2>2. PICK p \in Writers : Write(p)
    BY <1>1, <2>1 DEF Next, vars, Read, Load, Unlock, Lock, Crash
  <2>3. CASE \E m \in Names : Delete(p, m)
    <3>1. PICK m \in Names : Delete(p, m)
      BY <2>3
    <3>2. m = n
      <4>1. files' = [files EXCEPT ![Path(m)] = NoFile]
        BY <3>1 DEF Delete
      <4> QED
        BY <1>1, <2>0, <4>1, PathFacts
    <3> QED
      BY <3>1, <3>2
  <2>4. CASE SaveCheck(p) \/ SaveOpen(p) \/ SaveWrite(p) \/ SaveRename(p)
    <3>0. p \in Programs /\ pc[p] # "idle"
      BY <2>4, WalletStoreAssumption
         DEF SaveCheck, SaveOpen, SaveWrite, SaveRename
    <3>1. /\ target[p] \in Names
          /\ (pc[p] # "check" /\ ~overwrite[p]) => ~Exists(target[p])
          /\ pc[p] = "write" => fd[p] = Tmp(target[p])
      BY <1>1, <3>0 DEF StoreInv, SaveOK
    <3>2. Path(n) # Tmp(target[p]) /\ Path(n) \in Paths
      BY <3>1, PathFacts
    <3>3. ~SaveCheck(p)
      BY <2>1 DEF SaveCheck
    <3>4. ~SaveOpen(p)
      BY <1>1, <2>0, <3>2 DEF SaveOpen
    <3>5. ~SaveWrite(p)
      BY <1>1, <3>1, <3>2 DEF SaveWrite
    <3>6. SaveRename(p)
      BY <2>4, <3>3, <3>4, <3>5
    <3>7. /\ pc[p] = "rename"
          /\ files' = [files EXCEPT ![Path(target[p])] = files[Tmp(target[p])],
                                    ![Tmp(target[p])] = NoFile]
      BY <2>1, <3>6 DEF SaveRename
    <3>8. Path(n) = Path(target[p])
      BY <1>1, <2>0, <3>2, <3>7
    <3>9. target[p] = n
      BY <3>1, <3>8, PathFacts
    <3>10. overwrite[p]
      BY <1>1, <3>1, <3>7, <3>9
    <3> QED
      BY <3>6, <3>9, <3>10
  <2>5. CASE \E m \in Names :
               \/ \E over \in BOOLEAN : Save(p, m, over)
               \/ \E s \in Passphrases :
                    \/ Create(p, m, s)
                    \/ \E ks \in ImportFiles : Import(p, m, ks, s)
    BY <2>1, <2>5 DEF Save, Create, Import, BeginSave
  <2> QED
    BY <2>2, <2>3, <2>4, <2>5 DEF Write
<1>2. StoreInv /\ [Next]_vars => [\A n \in Names : Silent(n) => Asked(n)]_vars
  BY <1>1
<1>3. Init => SignInv
  BY DEF Init, SignInv
<1>4. SignInv /\ StoreInv /\ [Next]_vars => StoreInv'
  BY NextStore
<1> QED
  BY <1>2, <1>3, <1>4, InitStore, NextSignInv, PTL DEF Spec, NoSilentOverwrite

=============================================================================
