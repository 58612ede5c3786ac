---------------------------- MODULE WalletStore ----------------------------
(***************************************************************************)
(* Wallets and the directory they are kept in (wallet.ts, walletStore.ts,  *)
(* the keystore part of crypto.ts and the wallet command line).            *)
(*                                                                         *)
(* A program that uses the library runs alone on its thread, but several   *)
(* programs may share the directory, so an operation is cut into its file  *)
(* system calls, and a program may die between any two of them.  Writing a *)
(* file truncates it first: until the data is there its content is Torn.   *)
(* A program that has a file open goes on writing to it when the file is   *)
(* renamed, and writes to nowhere when it is unlinked.                     *)
(*                                                                         *)
(* Cryptography is ideal: a private key is a model value, and encryption   *)
(* is a record that only the right passphrase opens.                       *)
(***************************************************************************)
EXTENDS Naturals

CONSTANTS
  Programs,     \* running programs
  Writers,      \* those of them that create, import, save or delete
  Names,        \* wallet names
  PrivateKeys,  \* keys that may be generated
  Passphrases,
  ImportFiles,  \* keystores that a user may import
  NoFile,       \* content of a path that does not exist
  Torn,         \* content that is not valid JSON
  None          \* no wallet, no key, no open file

ASSUME WalletStoreAssumption == Writers \subseteq Programs

VARIABLES
  files,      \* path -> NoFile, Torn or a keystore
  pc,         \* program -> the next call of its save; "idle" outside of one
  target,     \* program -> the name it last saved under, or None
  overwrite,  \* program -> opts.overwrite of its save
  fd,         \* program -> path of the file it has open, or None
  wallet      \* program -> [ks, keys] of its wallet object, or None

vars == <<files, pc, target, overwrite, fd, wallet>>

Path(name) == <<name, "json">>
Tmp(name)  == <<name, "json.tmp">>

Paths == {Path(n) : n \in Names} \cup {Tmp(n) : n \in Names}

Exists(name) == files[Path(name)] # NoFile

-----------------------------------------------------------------------------
(* Keystores                                                               *)

PublicKeyOf(privateKey) == <<"public", privateKey>>

AddressFromPublicKey(publicKey) == <<"address", publicKey>>

EncryptBytes(plain, passphrase) == [plain |-> plain, passphrase |-> passphrase]

\* decryptBytes does not throw.
Decrypts(enc, passphrase) == enc.passphrase = passphrase

CreateKeystore(privateKey, passphrase, name) ==
  [ name                |-> name,
    address             |-> AddressFromPublicKey(PublicKeyOf(privateKey)),
    publicKey           |-> PublicKeyOf(privateKey),
    encryptedPrivateKey |-> EncryptBytes(privateKey, passphrase) ]

\* What fromKeystore can check without a passphrase.
IsKeystore(content) ==
  /\ content \notin {NoFile, Torn}
  /\ content.address = AddressFromPublicKey(content.publicKey)

\* Mutant: what was decrypted is not compared with the public key.
UnlocksUnmatched(ks, passphrase) ==
  /\ IsKeystore(ks)
  /\ Decrypts(ks.encryptedPrivateKey, passphrase)

\* unlockKeystore succeeds: the address is the public key's, the passphrase
\* decrypts, and the key that comes out is the public key's.
Unlocks(ks, passphrase) ==
  /\ IsKeystore(ks)
  /\ Decrypts(ks.encryptedPrivateKey, passphrase)
  /\ ks.publicKey = PublicKeyOf(ks.encryptedPrivateKey.plain)

\* exportKeystore: the keystore under the name it is saved as.
ExportKeystore(ks, name) == [ks EXCEPT !.name = name]

\* The keystores there can be, apart from the names they are saved under.
Keystores ==
  ImportFiles \cup
    {CreateKeystore(k, s, n) : k \in PrivateKeys, s \in Passphrases, n \in Names}

\* A keystore has its four fields, and what is written of it is valid JSON.
ASSUME KeystoreAssumption ==
  /\ NoFile # Torn
  /\ \A ks \in Keystores :
       /\ DOMAIN ks = {"name", "address", "publicKey", "encryptedPrivateKey"}
       /\ \A n \in Names : ExportKeystore(ks, n) \notin {NoFile, Torn}

Locked(ks) == [ks |-> ks, keys |-> None]

Unlocked(ks) == [ks |-> ks, keys |-> ks.encryptedPrivateKey.plain]

Init ==
  /\ files = [x \in Paths |-> NoFile]
  /\ pc = [p \in Programs |-> "idle"]
  /\ target = [p \in Programs |-> None]
  /\ overwrite = [p \in Programs |-> FALSE]
  /\ fd = [p \in Programs |-> None]
  /\ wallet = [p \in Programs |-> None]

-----------------------------------------------------------------------------
(* Wallet objects                                                          *)

\* load: the wallet comes back locked.
Load(p, name) ==
  /\ pc[p] = "idle"
  /\ IsKeystore(files[Path(name)])
  /\ wallet' = [wallet EXCEPT ![p] = Locked(files[Path(name)])]
  /\ UNCHANGED <<files, pc, target, overwrite, fd>>

Unlock(p, passphrase) ==
  /\ pc[p] = "idle" /\ wallet[p] # None
  /\ Unlocks(wallet[p].ks, passphrase)
  /\ wallet' = [wallet EXCEPT ![p] = Unlocked(@.ks)]
  /\ UNCHANGED <<files, pc, target, overwrite, fd>>

Lock(p) ==
  /\ pc[p] = "idle" /\ wallet[p] # None
  /\ wallet' = [wallet EXCEPT ![p].keys = None]
  /\ UNCHANGED <<files, pc, target, overwrite, fd>>

\* A program starts to save its wallet.
BeginSave(p, name, w, over) ==
  /\ pc[p] = "idle"
  /\ wallet' = [wallet EXCEPT ![p] = w]
  /\ pc' = [pc EXCEPT ![p] = "check"]
  /\ target' = [target EXCEPT ![p] = name]
  /\ overwrite' = [overwrite EXCEPT ![p] = over]
  /\ UNCHANGED <<files, fd>>

\* Keys in use anywhere; a key pair that is generated is none of them.
KeysInUse ==
  {k \in PrivateKeys :
     \/ \E x \in Paths : files[x] \notin {NoFile, Torn}
                           /\ files[x].encryptedPrivateKey.plain = k
     \/ \E p \in Programs : wallet[p] # None
                              /\ wallet[p].ks.encryptedPrivateKey.plain = k}

\* wallet create <name>: nothing may be there yet; then Wallet.create.
Create(p, name, passphrase) ==
  /\ ~Exists(name)
  /\ \E k \in PrivateKeys \ KeysInUse :
       BeginSave(p, name, Unlocked(CreateKeystore(k, passphrase, name)), FALSE)

\* wallet import <file> <name>: likewise, and the passphrase must open it.
Import(p, name, ks, passphrase) ==
  /\ ~Exists(name)
  /\ Unlocks(ks, passphrase)
  /\ BeginSave(p, name, Unlocked(ks), FALSE)

\* A program saves the wallet it holds, under any name.
Save(p, name, over) ==
  wallet[p] # None /\ BeginSave(p, name, wallet[p], over)

-----------------------------------------------------------------------------
(* The calls of save and delete                                            *)

\* Mutant: save relies on its callers to look.
SaveCheckOmitted(p) ==
  /\ pc[p] = "check"
  /\ pc' = [pc EXCEPT ![p] = "open"]
  /\ UNCHANGED <<files, target, overwrite, fd, wallet>>

\* existsSync: save throws if the name is taken, unless it may overwrite.
SaveCheck(p) ==
  /\ pc[p] = "check"
  /\ pc' = [pc EXCEPT ![p] =
              IF Exists(target[p]) /\ ~overwrite[p] THEN "idle" ELSE "open"]
  /\ UNCHANGED <<files, target, overwrite, fd, wallet>>

\* Mutant: the keystore is written in place.
SaveOpenInPlace(p) ==
  /\ pc[p] = "open"
  /\ pc' = [pc EXCEPT ![p] = "write"]
  /\ fd' = [fd EXCEPT ![p] = Path(target[p])]
  /\ files' = [files EXCEPT ![Path(target[p])] = Torn]
  /\ UNCHANGED <<target, overwrite, wallet>>

\* writeFileSync(tmp) opens and truncates the temporary file ...
SaveOpen(p) ==
  /\ pc[p] = "open"
  /\ pc' = [pc EXCEPT ![p] = "write"]
  /\ fd' = [fd EXCEPT ![p] = Tmp(target[p])]
  /\ files' = [files EXCEPT ![Tmp(target[p])] = Torn]
  /\ UNCHANGED <<target, overwrite, wallet>>

\* ... and writes the keystore to it, wherever it is by now.
SaveWrite(p) ==
  /\ pc[p] = "write"
  /\ pc' = [pc EXCEPT ![p] = "rename"]
  /\ files' = [x \in Paths |->
                 IF x = fd[p] THEN ExportKeystore(wallet[p].ks, target[p])
                              ELSE files[x]]
  /\ fd' = [fd EXCEPT ![p] = None]
  /\ UNCHANGED <<target, overwrite, wallet>>

\* renameSync: replaces what is there; it throws if the temporary file is
\* gone.
SaveRename(p) ==
  LET from == Tmp(target[p])
      to   == Path(target[p])
  IN  /\ pc[p] = "rename"
      /\ pc' = [pc EXCEPT ![p] = "idle"]
      /\ \/ files[from] = NoFile /\ UNCHANGED <<files, fd>>
         \/ /\ files[from] # NoFile
            /\ files' = [files EXCEPT ![to] = files[from], ![from] = NoFile]
            /\ fd' = [q \in Programs |-> CASE fd[q] = from -> to
                                           [] fd[q] = to   -> None
                                           [] OTHER        -> fd[q]]
      /\ UNCHANGED <<target, overwrite, wallet>>

Delete(p, name) ==
  /\ pc[p] = "idle"
  /\ Exists(name)
  /\ files' = [files EXCEPT ![Path(name)] = NoFile]
  /\ fd' = [q \in Programs |-> IF fd[q] = Path(name) THEN None ELSE fd[q]]
  /\ UNCHANGED <<pc, target, overwrite, wallet>>

\* The program ends or is killed, and another one is started.
Crash(p) ==
  /\ pc' = [pc EXCEPT ![p] = "idle"]
  /\ fd' = [fd EXCEPT ![p] = None]
  /\ wallet' = [wallet EXCEPT ![p] = None]
  /\ target' = [target EXCEPT ![p] = None]
  /\ overwrite' = [overwrite EXCEPT ![p] = FALSE]
  /\ UNCHANGED files

-----------------------------------------------------------------------------
Read(p) ==
  \/ \E n \in Names : Load(p, n)
  \/ \E s \in Passphrases : Unlock(p, s)
  \/ Lock(p)
  \/ Crash(p)

Write(p) ==
  \/ \E n \in Names :
       \/ \E over \in BOOLEAN : Save(p, n, over)
       \/ \E s \in Passphrases :
            \/ Create(p, n, s)
            \/ \E ks \in ImportFiles : Import(p, n, ks, s)
       \/ Delete(p, n)
  \/ SaveCheck(p) \/ SaveOpen(p) \/ SaveWrite(p) \/ SaveRename(p)

Next ==
  \/ \E p \in Programs : Read(p)
  \/ \E p \in Writers : Write(p)

Spec == Init /\ [][Next]_vars

-----------------------------------------------------------------------------
(* Properties                                                              *)

\* Whatever a crash interrupts, a file under a wallet name is a whole
\* keystore, and its passphrase gives back the key of its address.
StoredUsable ==
  \A n \in Names :
    Exists(n) => /\ files[Path(n)] # Torn
                 /\ \E s \in Passphrases : Unlocks(files[Path(n)], s)

\* A program that can sign holds the key of the address it signs for, also
\* after loading what another program, or an import, has left in the store.
SignerOwnsAddress ==
  \A p \in Programs :
    (wallet[p] # None /\ wallet[p].keys # None) =>
      wallet[p].ks.address = AddressFromPublicKey(PublicKeyOf(wallet[p].keys))

\* A stored keystore, and with it the only copy of its key, is replaced or
\* removed only by a program that asked for that.
NoSilentOverwrite ==
  [][\A n \in Names :
       (Exists(n) /\ files'[Path(n)] # files[Path(n)]) =>
         \E p \in Writers : \/ Delete(p, n)
                            \/ SaveRename(p) /\ target[p] = n /\ overwrite[p]]_vars

=============================================================================
