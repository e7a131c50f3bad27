CONSTANTS a=a t1=t1 t2=t2
Repos={a}
NameOf <- SameName
Threads={t1,t2}
Writes={1, 2}
MaxInst=3
MaxMoves=1
MaxAsks=3
SPECIFICATION Spec
SYMMETRY Symm
CHECK_DEADLOCK FALSE
INVARIANTS LostOrLoaded OneOpener AckedKept LoadedSeesAcked LostHasItsUnload
PROPERTIES HookSparesNew
