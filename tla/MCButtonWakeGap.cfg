CONSTANT Button = {s1, s2}
SPECIFICATION Spec
INVARIANT NoSleepOnPress
