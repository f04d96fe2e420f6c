\* A late answer and a command given up: a run that is on is reported stopped.
CONSTANT MaxTimeouts = 2
SPECIFICATION Spec
PROPERTIES StopsWhatItReports
