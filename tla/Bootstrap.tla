------------------------------ MODULE Bootstrap ------------------------------
(***************************************************************************)
(* From `node dist/main` to a listening socket: modules are imported, the  *)
(* environment is read and validated, the storage provider is chosen and   *)
(* built, hooks call $connect() and check the provider's keys, and the     *)
(* port is bound.  Whatever throws on the way ends the process.            *)
(*                                                                         *)
(* A setting is "absent", "empty", "good" or "bad"; where it stands        *)
(* matters only for MAX_FILE_SIZE_MB.                                      *)
(***************************************************************************)
EXTENDS Naturals

CONSTANT Environments   \* what the process may be started with

VARIABLES
    btEnv,      \* what it was started with
    btPc,       \* the phase
    btMulter,   \* the size cap compiled into the upload routes, in MB
    btCap,      \* maxFileSize of UploadConfigService
    btSigned,   \* enablePresignedUrls, after its conversion
    btMissing,  \* whether validateActiveProvider() has looked, and what it found
    btConnected \* whether $connect() has returned; its pool may still be empty

btVars == <<btEnv, btPc, btMulter, btCap, btSigned, btMissing, btConnected>>

ProviderNames == {"local", "s3", "cloudflare", "cloudinary", "imagekit", "gcs", "azure"}
Settings == {"absent", "empty", "good", "bad"}
Places == {"nowhere", "process", "file"}

ASSUME BtAssumption == \A env \in Environments : env.cap \in Places

NoEnv == [provider |-> "local", required |-> "absent", jwt |-> "absent", numbers |-> "absent",
          keys |-> "absent", url |-> "absent", signing |-> "absent", cap |-> "nowhere",
          presigned |-> "absent"]

BtTypeOK ==
    /\ btEnv = NoEnv \/ btEnv \in Environments
    /\ btPc \in {"off", "environment", "modules", "construct", "init", "bind",
                 "listening", "exited"}
    /\ btMulter \in {0, 10, 600}
    /\ btCap \in {0, 10, 600}
    /\ btSigned \in BOOLEAN
    /\ btMissing \in {"unchecked", "none", "some"}
    /\ btConnected \in BOOLEAN

BtInit ==
    /\ btEnv = NoEnv
    /\ btPc = "off"
    /\ btMulter = 0
    /\ btCap = 0
    /\ btSigned = FALSE
    /\ btMissing = "unchecked"
    /\ btConnected = FALSE
----------------------------------------------------------------------------
Given(setting) == setting \in {"good", "bad"}   \* neither absent nor empty

\* Mutant: the error is logged, and the open handles keep the process up.
StayUp == UNCHANGED btPc

\* bootstrap().catch(), Nest's own, or node's for what an import throws.
Die == btPc' = "exited"

\* validateEnv(): strings that must be there may be empty; numbers, enumerations
\* and the port are converted and checked; provider and keys are not looked at.
RequiredThere == btEnv.required # "absent" /\ btEnv.jwt # "absent"
NumbersConverted == btEnv.numbers # "bad"
EnvironmentValid == RequiredThere /\ NumbersConverted

\* enableImplicitConversion: Boolean("false") is true, and only "" is false.
ImplicitBoolean(setting) == setting # "empty"

\* PROVIDER_CLASS_REGISTRY.
Registered == {"local", "s3", "cloudflare", "cloudinary", "imagekit"}

SigningSecret == Given(btEnv.signing) \/ Given(btEnv.jwt)

\* What the constructors refuse: passport an empty secret, the ImageKit client
\* missing keys, the Cloudinary SDK perhaps a bad URL, the disk its directories.
PassportRefuses == ~Given(btEnv.jwt)
ImageKitRefuses == btEnv.provider = "imagekit" /\ ~Given(btEnv.keys)
CloudinaryMayRefuse == btEnv.provider = "cloudinary" /\ btEnv.url = "bad"
DiskMayRefuse == btEnv.provider = "local"

\* Mutant: the keys are not checked at boot.
NothingMissing == FALSE

\* validateActiveProvider(); a CLOUDINARY_URL counts, whatever it says.
KeysMissing ==
    CASE btEnv.provider = "local" -> ~SigningSecret
      [] btEnv.provider = "cloudinary" -> ~Given(btEnv.url) /\ ~Given(btEnv.keys)
      [] OTHER -> ~Given(btEnv.keys)

\* `process.env.MAX_FILE_SIZE_MB ?? 10`, evaluated as upload.controller.ts is
\* imported, which is before ConfigModule.forRoot() reads the files.
CompiledCap(env) == IF env.cap = "process" THEN 600 ELSE 10

\* Mutant: the ceiling is the built-in one.
BuiltInCap == 10

\* Files and process are read alike.
ConfiguredCap == IF btEnv.cap = "nowhere" THEN 10 ELSE 600
----------------------------------------------------------------------------
BtImport ==
    /\ btPc = "off"
    /\ btEnv' \in Environments
    /\ btMulter' = CompiledCap(btEnv')
    /\ btPc' = "environment"
    /\ UNCHANGED <<btCap, btSigned, btMissing, btConnected>>

BtReadEnvironment ==
    /\ btPc = "environment"
    /\ IF EnvironmentValid THEN btPc' = "modules" ELSE Die
    /\ UNCHANGED <<btEnv, btMulter, btCap, btSigned, btMissing, btConnected>>

\* UploadV1Module.forRoot(), evaluated in AppModule's list of imports.
BtChooseProvider ==
    /\ btPc = "modules"
    /\ IF btEnv.provider \in Registered THEN btPc' = "construct" ELSE Die
    /\ UNCHANGED <<btEnv, btMulter, btCap, btSigned, btMissing, btConnected>>

\* loadConfiguration() and the constructors.  S3 and R2 are content without keys.
BtConstruct ==
    /\ btPc = "construct"
    /\ btCap' = ConfiguredCap
    /\ btSigned' = ImplicitBoolean(btEnv.presigned)
    /\ \/ ~PassportRefuses /\ ~ImageKitRefuses /\ btPc' = "init"
       \/ (PassportRefuses \/ ImageKitRefuses \/ CloudinaryMayRefuse \/ DiskMayRefuse) /\ Die
    /\ UNCHANGED <<btEnv, btMulter, btMissing, btConnected>>

\* onModuleInit() of PrismaService: $connect() returns, though the adapter's pool
\* need not have opened a connection, or throws.
BtConnect ==
    /\ btPc = "init" /\ ~btConnected
    /\ \/ btConnected' = TRUE /\ btPc' = IF btMissing = "none" THEN "bind" ELSE btPc
       \/ Die /\ UNCHANGED btConnected
    /\ UNCHANGED <<btEnv, btMulter, btCap, btSigned, btMissing>>

\* onModuleInit() of UploadConfigService; Nest orders the two by module.
BtCheckProvider ==
    /\ btPc = "init" /\ btMissing = "unchecked"
    /\ btMissing' = IF KeysMissing THEN "some" ELSE "none"
    /\ IF KeysMissing THEN Die ELSE btPc' = IF btConnected THEN "bind" ELSE btPc
    /\ UNCHANGED <<btEnv, btMulter, btCap, btSigned, btConnected>>

\* listen(): the port may be taken.
BtBind ==
    /\ btPc = "bind"
    /\ btPc' = "listening" \/ Die
    /\ UNCHANGED <<btEnv, btMulter, btCap, btSigned, btMissing, btConnected>>

\* SIGTERM, at any time: there are no shutdown hooks.
BtKill ==
    /\ btPc \notin {"off", "exited"}
    /\ btPc' = "exited"
    /\ UNCHANGED <<btEnv, btMulter, btCap, btSigned, btMissing, btConnected>>

Boot ==
    \/ BtReadEnvironment \/ BtChooseProvider \/ BtConstruct \/ BtConnect
    \/ BtCheckProvider \/ BtBind

BtNext == BtImport \/ Boot \/ BtKill

\* Every step is a call that returns or throws; of $connect() this is assumed.
BtFairness == WF_btVars(Boot)

BtSpec == BtInit /\ [][BtNext]_btVars /\ BtFairness
----------------------------------------------------------------------------
\* A process that listens was given every required setting, of which JWT_SECRET is
\* not empty (the refresh secret and the encryption key may be), numbers that
\* convert, and a registered provider with its keys, though a Cloudinary URL may be
\* nonsense; and its $connect() has returned, with a database behind it or not.
ListeningReady ==
    btPc = "listening" =>
        /\ btConnected
        /\ btEnv.numbers # "bad" /\ btEnv.required # "absent" /\ Given(btEnv.jwt)
        /\ btEnv.provider \in Registered
        /\ btEnv.provider # "local" =>
             Given(btEnv.keys) \/ (btEnv.provider = "cloudinary" /\ Given(btEnv.url))

\* The two size caps of a process that listens agree, unless MAX_FILE_SIZE_MB is set
\* in a file only; a switch is off only if it was set to nothing at all.
LimitsAgree ==
    btPc = "listening" =>
        /\ btMulter = btCap \/ (btEnv.cap = "file" /\ btMulter = 10)
        /\ ~btSigned => btEnv.presigned = "empty"

\* Inductive: what each phase has established.
BtPhases ==
    /\ btPc # "off" => btEnv \in Environments /\ btMulter = CompiledCap(btEnv)
    /\ btPc \in {"modules", "construct", "init", "bind", "listening"} => EnvironmentValid
    /\ btPc \in {"construct", "init", "bind", "listening"} => btEnv.provider \in Registered
    /\ btPc \in {"init", "bind", "listening"} =>
         /\ ~PassportRefuses /\ ~ImageKitRefuses
         /\ btCap = ConfiguredCap /\ btSigned = ImplicitBoolean(btEnv.presigned)
    /\ btPc \in {"bind", "listening"} => btConnected /\ btMissing = "none"
    /\ btPc # "off" /\ btMissing = "none" => ~KeysMissing
    /\ btPc \in {"off", "environment", "modules", "construct"} => btMissing = "unchecked"

BtInv == BtTypeOK /\ BtPhases

\* A start ends in a process that listens or in one that is gone, and is not left
\* half done.
BootSettles == btPc # "off" ~> btPc \in {"listening", "exited"}

\* BtFairness with its ENABLED spelled out, for the proof: a start that has a call
\* under way, or can make the next one, goes on.
BtCanGo ==
    \/ btPc \in {"environment", "modules", "construct", "bind"}
    \/ btPc = "init" /\ (~btConnected \/ btMissing = "unchecked")
BtGoesOn == []<><<Boot>>_btVars \/ []<>~BtCanGo

\* Why it does: no step of a start leads back to an earlier phase, and the two
\* hooks of the one phase that takes several steps run once each.
Phase == [off |-> 0, environment |-> 1, modules |-> 2, construct |-> 3, init |-> 4,
          bind |-> 5, listening |-> 6, exited |-> 7]

HooksRun == (IF btConnected THEN 1 ELSE 0) + (IF btMissing = "unchecked" THEN 0 ELSE 1)

BootAdvances ==
    [][/\ Phase[btPc] <= Phase[btPc'] /\ HooksRun <= HooksRun'
       /\ Phase[btPc] < Phase[btPc'] \/ HooksRun < HooksRun']_btVars
=============================================================================
