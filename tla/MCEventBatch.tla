---- MODULE MCEventBatch ----
EXTENDS EventBatch
CONSTANTS d1, d2, f1, f2
Dirs2 == {<<<<0, d>>, <<1, f>>>> : d \in DirNames, f \in FileNames}
OneDir == {<<<<0, d>>, <<1, f>>, <<0, g>>>> : d \in DirNames, f \in FileNames, g \in FileNames}
Small == Dirs2 \cup OneDir
Mixed == {t \in OneDir : t[2][2] # t[3][2]}
Few == Dirs2 \cup Mixed
FullDir == {<<<<0, d>>, <<1, f>>, <<1, g>>>> : d \in DirNames, f \in FileNames, g \in FileNames}
Full == {t \in FullDir : t[2] # t[3]}
Symm == {p \in Permutations(Names) : \A n \in DirNames : p[n] \in DirNames}
====
